---- MODULE Spec2Model ----
(***************************************************************************)
(* State-machine model of the bmadnotion synchronisation engines:          *)
(*   PageSyncEngine    (src/src/bmadnotion/page_sync.py)                   *)
(*   DbSyncEngine      (src/src/bmadnotion/db_sync.py)                     *)
(*   ProjectSyncEngine (src/src/bmadnotion/project_sync.py)                *)
(* over the SQLite Store (store.py) and the BMADScanner (scanner.py).      *)
(*                                                                         *)
(* Strings with "-" separators (ledger keys) are sequences of segments,    *)
(* "epic-1" is <<"epic", "1">>; file paths are sequences of path parts.    *)
(* A remote call may raise; which call of an item raises is an input of    *)
(* the item's action.                                                      *)
(***************************************************************************)
EXTENDS Integers, Sequences, FiniteSets, TLC

VARIABLES
    config,      \* the loaded Config
    docFiles,    \* planning-artifacts: path -> NoFile or [content, mtime]
    ledger,      \* sprint-status.yaml: NoFile or sequence of [key, status]
    epicFiles,   \* epics directory: epic key -> NoFile or [mtime]
    storyFiles,  \* implementation-artifacts: story key -> NoFile or [content, mtime]
    clock,       \* file-system time, source of mtimes
    pageTable,   \* Store table page_sync_state: local_path -> record
    dbTable,     \* Store table db_sync_state: local_key -> record
    sync_db,     \* the file .bmadnotion/sync.db: the rows of its two tables
    remote,      \* the remote store: id -> page or row
    pc,          \* position of the caller: "idle", inside a sync loop, "returned"
    run,         \* arguments and loop state of the sync call in progress
    result,      \* SyncResult / DbSyncResult / project tuple being built or returned
    calls,       \* remote calls and store writes issued by the call in progress
    progress,    \* the on_progress callback invocations of the call in progress
    start,       \* snapshot of store, remote and history taken when the call began
    lastOk,      \* history: item -> local state it had when a real run last synced it without error
    afterChange, \* history: the last page run was a successful update of exactly one changed document
    runs,        \* number of engine calls made so far
    failures     \* number of remote calls that raised so far

vars == <<config, docFiles, ledger, epicFiles, storyFiles, clock, pageTable, dbTable,
          sync_db, remote, pc, run, result, calls, progress, start, lastOk, afterChange, runs,
          failures>>

(***************************************************************************)
(* Python's None, per type: values of one type stay comparable.            *)
(***************************************************************************)
None == "None"                          \* a missing string
NoId == <<"none", 0>>                   \* a missing remote id
NoMtime == 0                            \* a missing mtime (mtimes are positive)
NoContent == -1                         \* a missing text
NoHash == <<"none", -1>>                \* a missing content hash
NoKey == <<>>                           \* a missing ledger key
NoFile == [content |-> NoContent, mtime |-> NoMtime]   \* a file that does not exist
NoLedger == <<[key |-> NoKey, status |-> "NoFile"]>>   \* a ledger file that does not exist
NeverSynced == [key |-> NoKey]          \* history: no successful sync of the item yet
NoPageState == [local_path |-> None, notion_page_id |-> NoId,
                last_synced_mtime |-> NoMtime, content_hash |-> NoHash]
NoDbState == [local_key |-> NoKey, entity_type |-> None, notion_page_id |-> NoId,
              last_synced_mtime |-> NoMtime, content_hash |-> NoHash]

\* remote ids are pairs: the ids the remote store hands out are <<"id", n>>
RemoteId(n) == <<"id", n>>

(***************************************************************************)
(* Bounds of the model.                                                    *)
(***************************************************************************)
MaxRuns == 2
MaxEdits == 1
MaxContent == 2
MaxDocs == 2
MaxFailures == 1
MaxLedger == 3

(***************************************************************************)
(* Program constants.                                                      *)
(***************************************************************************)
PageBatch == 100

Min(a, b) == IF a < b THEN a ELSE b

Last(s) == s[Len(s)]

(***************************************************************************)
(* Local content.  A content value c stands for a text; 0 is the empty     *)
(* text.  The md5 digest is a value distinct from the text it digests.     *)
(***************************************************************************)
Contents == 0..MaxContent

Md5(content) == <<"md5", content>>

\* markdown_to_blocks: the number of blocks a text renders to.  The empty
\* text renders to no block; odd texts are short, even texts need more than
\* one page-creation batch.
MarkdownToBlocks(content) ==
    IF content = 0 THEN 0
    ELSE IF content % 2 = 1 THEN content
    ELSE PageBatch + content

\* Document.content_hash
DocContentHash(doc) == Md5(doc.content)

\* Path.name
PathName(path) == Last(path)

(***************************************************************************)
(* Scanner: documents.                                                     *)
(***************************************************************************)
DEFAULT_DOCUMENTS ==
    << [path |-> <<"prd.md">>, title |-> "PRD - {project}"],
       [path |-> <<"architecture.md">>, title |-> "Architecture - {project}"],
       [path |-> <<"ux-design-specification.md">>, title |-> "UX Design - {project}"],
       [path |-> <<"product-brief.md">>, title |-> "Product Brief - {project}"] >>

\* The documents the model's file system can hold: the first MaxDocs defaults.
DocConfigs == SubSeq(DEFAULT_DOCUMENTS, 1, MaxDocs)

DocPaths == {DocConfigs[i].path : i \in 1..Len(DocConfigs)}

FormatTitle(template, project) == <<template, project>>

RECURSIVE ScanDocs(_, _, _)
ScanDocs(cfg, files, doc_configs) ==
    IF doc_configs = <<>> THEN <<>>
    ELSE LET doc_config == Head(doc_configs)
             rest == ScanDocs(cfg, files, Tail(doc_configs))
         IN IF files[doc_config.path] = NoFile THEN rest
            ELSE << [path |-> doc_config.path,
                     title |-> FormatTitle(doc_config.title, cfg.project),
                     content |-> files[doc_config.path].content,
                     mtime |-> files[doc_config.path].mtime] >> \o rest

ScanDocuments(cfg, files) ==
    ScanDocs(cfg, files,
             IF cfg.page_sync.documents = <<>> THEN DocConfigs
             ELSE cfg.page_sync.documents)

(***************************************************************************)
(* Store.                                                                  *)
(***************************************************************************)
\* a project directory without .bmadnotion/sync.db
NoSyncDb == [exists |-> FALSE, page_sync_state |-> {}, db_sync_state |-> {}]

\* variant: the schema is created anew on every open
StoreInitDb_Recreate(db) ==
    [exists |-> TRUE, page_sync_state |-> {}, db_sync_state |-> {}]

\* Store.__init__ / _init_db: CREATE TABLE IF NOT EXISTS for both tables
StoreInitDb(db) ==
    IF db.exists THEN db
    ELSE [exists |-> TRUE, page_sync_state |-> {}, db_sync_state |-> {}]

\* variant: a plain INSERT into a table without the primary key
InsertOrReplace_Insert(rows, pk, row) == rows \cup {row}

\* INSERT OR REPLACE: the row holding the same primary key is deleted, then
\* the new row is inserted with every column taken from the statement
InsertOrReplace(rows, pk, row) == {r \in rows : r[pk] # row[pk]} \cup {row}

\* SELECT ... WHERE pk = ?, fetchone(), None when no row matches
FetchOne(rows, pk, key, none) ==
    IF \E r \in rows : r[pk] = key THEN CHOOSE r \in rows : r[pk] = key ELSE none

\* DELETE FROM ... WHERE pk = ?
DeleteFrom(rows, pk, key) == {r \in rows : r[pk] # key}

\* SELECT ... WHERE entity_type = ?, fetchall()
GetDbStatesByType(rows, entity_type) == {r \in rows : r.entity_type = entity_type}

\* the file a store holding these records was written to
StoredRows(page_states, db_states) ==
    [exists |-> TRUE,
     page_sync_state |-> {page_states[k] : k \in DOMAIN page_states},
     db_sync_state |-> {db_states[k] : k \in DOMAIN db_states}]

\* variant: the table is rewritten with the saved record alone
Upsert_Truncate(table, key, rec) == [k \in {key} |-> rec]

\* the records of a table by primary key, as the engines read them
Upsert(table, key, rec) ==
    [k \in DOMAIN table \cup {key} |-> IF k = key THEN rec ELSE table[k]]

Remove(table, key) == [k \in DOMAIN table \ {key} |-> table[k]]

\* variant: the lookup answers "not found" whatever the table holds
GetPageState_Absent(table, local_path) == NoPageState

GetPageState(table, local_path) ==
    IF local_path \in DOMAIN table THEN table[local_path] ELSE NoPageState

GetDbState(table, local_key) ==
    IF local_key \in DOMAIN table THEN table[local_key] ELSE NoDbState

(***************************************************************************)
(* The world an item's processing acts on, and the log of what it did.    *)
(***************************************************************************)
World == [pageTable |-> pageTable, dbTable |-> dbTable, sync_db |-> sync_db,
          remote |-> remote, calls |-> calls]

Logged(w, op, item, id, ok, props) ==
    [w EXCEPT !.calls = Append(@, [op |-> op, item |-> item, id |-> id, ok |-> ok, props |-> props])]

NewId(w) == RemoteId(Cardinality(DOMAIN w.remote) + 1)

RemoteOps == {"create_child_page", "append_blocks_in_batches", "clear_page_content",
              "create_database_entry", "update_database_entry", "append_blocks",
              "databases.retrieve", "data_sources.query", "pages.create"}

StoreOps == {"save_page_state", "save_db_state"}

SavePageState(w, state) ==
    Logged([w EXCEPT !.pageTable = Upsert(@, state.local_path, state),
                     !.sync_db.page_sync_state = InsertOrReplace(@, "local_path", state)],
           "save_page_state", state.local_path, state.notion_page_id, TRUE, None)

SaveDbState(w, state) ==
    Logged([w EXCEPT !.dbTable = Upsert(@, state.local_key, state),
                     !.sync_db.db_sync_state = InsertOrReplace(@, "local_key", state)],
           "save_db_state", state.local_key, state.notion_page_id, TRUE, None)

\* client.create_child_page(parent_page_id, title, children): a new page
\* whose body holds the children
CreateChildPage(w, item, parent_page_id, title, src, nchildren) ==
    Logged([w EXCEPT !.remote = Upsert(@, NewId(w),
                [kind |-> "page", item |-> item, parent |-> parent_page_id,
                 props |-> [title |-> title], body |-> [src |-> src, n |-> nchildren]])],
           "create_child_page", item, NewId(w), TRUE, [title |-> title, parent |-> parent_page_id])

\* client.append_blocks_in_batches / client.append_blocks
AppendBlocks(w, op, item, page_id, src, nblocks) ==
    Logged([w EXCEPT !.remote[page_id].body = [src |-> src, n |-> @.n + nblocks]],
           op, item, page_id, TRUE, [n |-> nblocks])

\* client.clear_page_content
ClearPageContent(w, item, page_id) ==
    Logged([w EXCEPT !.remote[page_id].body = [src |-> NoContent, n |-> 0]],
           "clear_page_content", item, page_id, TRUE, None)

\* a remote call that raises: nothing changes remotely
Failed(w, op, item, id) == Logged(w, op, item, id, FALSE, None)

\* the number of calls in a log that raised
RaisedCalls(log) == Cardinality({n \in 1..Len(log) : ~log[n].ok})

\* a batched append that raises after its first batch went through
FailedAfterBatch(w, op, item, page_id, src, nblocks) ==
    Logged([w EXCEPT !.remote[page_id].body = [src |-> src, n |-> @.n + Min(nblocks, PageBatch)]],
           op, item, page_id, FALSE, [n |-> Min(nblocks, PageBatch)])

Return(w, action) == [w |-> w, action |-> action, err |-> None, page_id |-> NoId]

ReturnId(w, action, page_id) == [w |-> w, action |-> action, err |-> None, page_id |-> page_id]

Raise(w, err) == [w |-> w, action |-> "failed", err |-> err, page_id |-> NoId]

(***************************************************************************)
(* PageSyncEngine._sync_document                                           *)
(* f is the number of the remote call of this item that raises (0: none); *)
(* part tells whether a raising batched append got its first batch through.*)
(***************************************************************************)
\* variant: every document is pushed again
NeedsSyncPage_Always(force, state, doc) == TRUE

\* variant: change detection by modification time instead of content hash
NeedsSyncPage_ByMtime(force, state, doc) ==
    force \/ state = NoPageState \/ state.last_synced_mtime # doc.mtime

NeedsSyncPage(force, state, doc) ==
    force \/ state = NoPageState \/ state.content_hash # DocContentHash(doc)

NewPageState(local_path, page_id, doc) ==
    [local_path |-> local_path, notion_page_id |-> page_id,
     last_synced_mtime |-> doc.mtime, content_hash |-> DocContentHash(doc)]

FailedAppend(w, op, item, page_id, src, nblocks, part) ==
    IF part /\ nblocks > PageBatch
    THEN FailedAfterBatch(w, op, item, page_id, src, nblocks)
    ELSE Failed(w, op, item, page_id)

\* variant: the record is saved after the remaining blocks were appended
CreatePage_SaveLast(w, doc, local_path, parent_page_id, nblocks, f, part) ==
    IF f = 1 THEN Raise(Failed(w, "create_child_page", local_path, NoId), "create_child_page")
    ELSE LET page_id == NewId(w)
             w1 == CreateChildPage(w, local_path, parent_page_id, doc.title,
                                   doc.content, Min(nblocks, PageBatch))
         IN IF nblocks > PageBatch
            THEN IF f = 2
                 THEN Raise(FailedAppend(w1, "append_blocks_in_batches", local_path, page_id,
                                         doc.content, nblocks - PageBatch, part),
                            "append_blocks_in_batches")
                 ELSE Return(SavePageState(
                                AppendBlocks(w1, "append_blocks_in_batches", local_path, page_id,
                                             doc.content, nblocks - PageBatch),
                                NewPageState(local_path, page_id, doc)), "created")
            ELSE Return(SavePageState(w1, NewPageState(local_path, page_id, doc)), "created")

CreatePage(w, doc, local_path, parent_page_id, nblocks, f, part) ==
    IF f = 1 THEN Raise(Failed(w, "create_child_page", local_path, NoId), "create_child_page")
    ELSE LET page_id == NewId(w)
             w1 == CreateChildPage(w, local_path, parent_page_id, doc.title,
                                   doc.content, Min(nblocks, PageBatch))
             w2 == SavePageState(w1, NewPageState(local_path, page_id, doc))
         IN IF nblocks > PageBatch
            THEN IF f = 2
                 THEN Raise(FailedAppend(w2, "append_blocks_in_batches", local_path, page_id,
                                         doc.content, nblocks - PageBatch, part),
                            "append_blocks_in_batches")
                 ELSE Return(AppendBlocks(w2, "append_blocks_in_batches", local_path, page_id,
                                          doc.content, nblocks - PageBatch), "created")
            ELSE Return(w2, "created")

\* variant: an update that does not write the record back
UpdatePage_NoSave(w, doc, local_path, state, nblocks, f, part) ==
    LET page_id == state.notion_page_id
    IN IF f = 1 THEN Raise(Failed(w, "clear_page_content", local_path, page_id), "clear_page_content")
       ELSE LET w1 == ClearPageContent(w, local_path, page_id)
            IN IF nblocks > 0 /\ f = 2
               THEN Raise(FailedAppend(w1, "append_blocks_in_batches", local_path, page_id,
                                       doc.content, nblocks, part),
                          "append_blocks_in_batches")
               ELSE Return(IF nblocks > 0
                           THEN AppendBlocks(w1, "append_blocks_in_batches", local_path,
                                             page_id, doc.content, nblocks)
                           ELSE w1, "updated")

\* variant: the record is written before the page is rewritten
UpdatePage_SaveFirst(w, doc, local_path, state, nblocks, f, part) ==
    LET page_id == state.notion_page_id
        w0 == SavePageState(w, NewPageState(local_path, page_id, doc))
    IN IF f = 1 THEN Raise(Failed(w0, "clear_page_content", local_path, page_id), "clear_page_content")
       ELSE LET w1 == ClearPageContent(w0, local_path, page_id)
            IN IF nblocks > 0 /\ f = 2
               THEN Raise(FailedAppend(w1, "append_blocks_in_batches", local_path, page_id,
                                       doc.content, nblocks, part),
                          "append_blocks_in_batches")
               ELSE Return(IF nblocks > 0
                           THEN AppendBlocks(w1, "append_blocks_in_batches", local_path,
                                             page_id, doc.content, nblocks)
                           ELSE w1, "updated")

\* variant: an update replaces the page by a new one
UpdatePage_Recreate(w, doc, local_path, state, nblocks, f, part) ==
    IF f = 1 THEN Raise(Failed(w, "create_child_page", local_path, NoId), "create_child_page")
    ELSE LET page_id == NewId(w)
             w1 == CreateChildPage(w, local_path, w.remote[state.notion_page_id].parent,
                                   doc.title, doc.content, nblocks)
         IN Return(SavePageState(w1, NewPageState(local_path, page_id, doc)), "updated")

\* variant: the new blocks are appended to the old body
UpdatePage_NoClear(w, doc, local_path, state, nblocks, f, part) ==
    LET page_id == state.notion_page_id
    IN IF nblocks > 0 /\ f = 2
       THEN Raise(FailedAppend(w, "append_blocks_in_batches", local_path, page_id,
                               doc.content, nblocks, part),
                  "append_blocks_in_batches")
       ELSE LET w2 == IF nblocks > 0
                      THEN AppendBlocks(w, "append_blocks_in_batches", local_path,
                                        page_id, doc.content, nblocks)
                      ELSE w
            IN Return(SavePageState(w2, NewPageState(local_path, page_id, doc)), "updated")

UpdatePage(w, doc, local_path, state, nblocks, f, part) ==
    LET page_id == state.notion_page_id
    IN IF f = 1 THEN Raise(Failed(w, "clear_page_content", local_path, page_id), "clear_page_content")
       ELSE LET w1 == ClearPageContent(w, local_path, page_id)
            IN IF nblocks > 0 /\ f = 2
               THEN Raise(FailedAppend(w1, "append_blocks_in_batches", local_path, page_id,
                                       doc.content, nblocks, part),
                          "append_blocks_in_batches")
               ELSE LET w2 == IF nblocks > 0
                              THEN AppendBlocks(w1, "append_blocks_in_batches", local_path,
                                                page_id, doc.content, nblocks)
                              ELSE w1
                    IN Return(SavePageState(w2, NewPageState(local_path, page_id, doc)), "updated")

\* variant: the dry_run flag is not consulted
SyncDocument_NoDryRun(w, doc, parent_page_id, force, dry_run, f, part) ==
    LET local_path == PathName(doc.path)
        state == GetPageState(w.pageTable, local_path)
        nblocks == MarkdownToBlocks(doc.content)
    IN IF ~NeedsSyncPage(force, state, doc) THEN Return(w, "skipped")
       ELSE IF state = NoPageState
            THEN CreatePage(w, doc, local_path, parent_page_id, nblocks, f, part)
            ELSE UpdatePage(w, doc, local_path, state, nblocks, f, part)

SyncDocument(w, doc, parent_page_id, force, dry_run, f, part) ==
    LET local_path == PathName(doc.path)
        state == GetPageState(w.pageTable, local_path)
        nblocks == MarkdownToBlocks(doc.content)
    IN IF ~NeedsSyncPage(force, state, doc) THEN Return(w, "skipped")
       ELSE IF dry_run THEN Return(w, IF state = NoPageState THEN "created" ELSE "updated")
       ELSE IF state = NoPageState
            THEN CreatePage(w, doc, local_path, parent_page_id, nblocks, f, part)
            ELSE UpdatePage(w, doc, local_path, state, nblocks, f, part)

(***************************************************************************)
(* Scanner: the status ledger.                                             *)
(***************************************************************************)
\* key.startswith("epic-")
IsEpicKey(key) == Len(key) >= 2 /\ key[1] = "epic"

\* variant: no key counts as a retrospective entry
IsRetrospectiveKey_Never(key) == FALSE

\* key.endswith("-retrospective")
IsRetrospectiveKey(key) == Len(key) >= 2 /\ Last(key) = "retrospective"

Digits == {"0", "1", "2", "3", "4", "5", "6", "7", "8", "9"}

\* variant: the numeric prefix is not looked at
InferEpicKey_Unknown(story_key) == <<"epic", "unknown">>

\* BMADScanner._infer_epic_key: re.match(r"^(\d+)-", story_key)
InferEpicKey(story_key) ==
    IF Len(story_key) >= 2 /\ story_key[1] \in Digits
    THEN <<"epic", story_key[1]>>
    ELSE <<"epic", "unknown">>

\* BMADScanner._extract_title: the first H1 heading of the text, else the
\* default; the empty text has no heading
ExtractTitle(content, default) ==
    IF content > 0 THEN <<"h1-of", content>> ELSE default

FileOf(files, key) == IF key \in DOMAIN files THEN files[key] ELSE NoFile

\* BMADScanner._parse_epic
ParseEpic(key, status, files) ==
    LET file == FileOf(files, key)
        default == <<"Epic">> \o Tail(key)
    IN [key |-> key,
        title |-> IF file = NoFile THEN default ELSE ExtractTitle(file.content, default),
        status |-> status,
        has_file |-> file # NoFile,
        mtime |-> file.mtime]

\* BMADScanner._parse_story
ParseStory(key, status, epic_key, files) ==
    LET file == FileOf(files, key)
        title == IF Len(key) >= 3 THEN <<"Title">> \o SubSeq(key, 3, Len(key)) ELSE key
    IN [key |-> key,
        epic_key |-> epic_key,
        title |-> IF file = NoFile THEN title ELSE ExtractTitle(file.content, title),
        status |-> status,
        has_file |-> file # NoFile,
        mtime |-> file.mtime,
        content |-> file.content]

\* Story.content_hash
StoryContentHash(story) ==
    IF story.content = NoContent THEN NoHash ELSE Md5(story.content)

\* the loop of scan_sprint_status over development_status.items(), carrying
\* current_epic_key
RECURSIVE ScanEntries(_, _, _, _)
ScanEntries(entries, current_epic_key, epic_files, story_files) ==
    IF entries = <<>> THEN [epics |-> <<>>, stories |-> <<>>]
    ELSE LET key == Head(entries).key
             status == Head(entries).status
         IN IF IsRetrospectiveKey(key)
            THEN ScanEntries(Tail(entries), current_epic_key, epic_files, story_files)
            ELSE IF IsEpicKey(key)
            THEN LET rest == ScanEntries(Tail(entries), key, epic_files, story_files)
                 IN [rest EXCEPT !.epics = <<ParseEpic(key, status, epic_files)>> \o @]
            ELSE LET rest == ScanEntries(Tail(entries), current_epic_key, epic_files, story_files)
                     epic_key == IF current_epic_key # NoKey THEN current_epic_key
                                 ELSE InferEpicKey(key)
                 IN [rest EXCEPT !.stories =
                        <<ParseStory(key, status, epic_key, story_files)>> \o @]

ScanSprintStatus(entries, epic_files, story_files) ==
    ScanEntries(entries, NoKey, epic_files, story_files)

(***************************************************************************)
(* Remote database rows.                                                   *)
(***************************************************************************)
\* client.create_database_entry(database_id, properties)
CreateDatabaseEntry(w, item, database_id, properties) ==
    Logged([w EXCEPT !.remote = Upsert(@, NewId(w),
                [kind |-> "row", item |-> item, parent |-> database_id,
                 props |-> properties, body |-> [src |-> NoContent, n |-> 0]])],
           "create_database_entry", item, NewId(w), TRUE, properties)

\* client.update_database_entry(page_id, properties)
UpdateDatabaseEntry(w, item, page_id, properties) ==
    Logged([w EXCEPT !.remote[page_id].props = properties],
           "update_database_entry", item, page_id, TRUE, properties)

\* variant: a status the mapping does not hold is pushed as no status
MapStatus_Strict(status_mapping, status) ==
    IF status \in DOMAIN status_mapping THEN status_mapping[status] ELSE None

\* status_mapping.get(status, status)
MapStatus(status_mapping, status) ==
    IF status \in DOMAIN status_mapping THEN status_mapping[status] ELSE status

(***************************************************************************)
(* DbSyncEngine._sync_epic                                                 *)
(***************************************************************************)
\* variant: the epic's modification time is not compared
NeedsSyncEpic_NoMtime(force, state, epic) == force \/ state = NoDbState

\* variant: every epic is pushed again
NeedsSyncEpic_Always(force, state, epic) == TRUE

NeedsSyncEpic(force, state, epic) ==
    LET mtime_changed == /\ state # NoDbState
                         /\ epic.mtime # NoMtime
                         /\ state.last_synced_mtime # epic.mtime
    IN force \/ state = NoDbState \/ mtime_changed

EpicProperties(sprints_config, epic) ==
    [name |-> epic.title,
     key |-> epic.key,
     status |-> IF sprints_config.status_property # None
                THEN MapStatus(sprints_config.status_mapping, epic.status)
                ELSE None]

\* variant: the epic's mtime is not recorded
NewEpicState_NoMtime(epic, page_id) ==
    [local_key |-> epic.key, entity_type |-> "epic", notion_page_id |-> page_id,
     last_synced_mtime |-> NoMtime, content_hash |-> NoHash]

NewEpicState(epic, page_id) ==
    [local_key |-> epic.key, entity_type |-> "epic", notion_page_id |-> page_id,
     last_synced_mtime |-> epic.mtime, content_hash |-> NoHash]

DryRunId(key) == <<"dry-run", key>>

\* variant: a skipped epic hands no id to the story phase
SkippedEpicId_None(state) == NoId

\* the early return of a skipped epic: ("skipped", state.notion_page_id)
SkippedEpicId(state) == state.notion_page_id

\* variant: an existing epic's record is saved before its row is updated
SyncEpic_SaveFirst(w, cfg, epic, force, dry_run, f) ==
    LET state == GetDbState(w.dbTable, epic.key)
        sprints_config == cfg.database_sync.sprints
        properties == EpicProperties(sprints_config, epic)
        database_id == sprints_config.database_id
    IN IF ~NeedsSyncEpic(force, state, epic) /\ state # NoDbState
       THEN ReturnId(w, "skipped", SkippedEpicId(state))
       ELSE IF dry_run
       THEN ReturnId(w, IF state = NoDbState THEN "created" ELSE "updated", DryRunId(epic.key))
       ELSE IF database_id = NoId
       THEN Raise(w, "Sprints database_id not configured")
       ELSE IF state = NoDbState
       THEN IF f = 1
            THEN Raise(Failed(w, "create_database_entry", epic.key, NoId), "create_database_entry")
            ELSE LET page_id == NewId(w)
                     w1 == CreateDatabaseEntry(w, epic.key, database_id, properties)
                 IN ReturnId(SaveDbState(w1, NewEpicState(epic, page_id)), "created", page_id)
       ELSE LET page_id == state.notion_page_id
                w0 == SaveDbState(w, NewEpicState(epic, page_id))
            IN IF f = 1
               THEN Raise(Failed(w0, "update_database_entry", epic.key, page_id),
                          "update_database_entry")
               ELSE ReturnId(UpdateDatabaseEntry(w0, epic.key, page_id, properties),
                             "updated", page_id)

SyncEpic(w, cfg, epic, force, dry_run, f) ==
    LET state == GetDbState(w.dbTable, epic.key)
        sprints_config == cfg.database_sync.sprints
        properties == EpicProperties(sprints_config, epic)
        database_id == sprints_config.database_id
    IN IF ~NeedsSyncEpic(force, state, epic) /\ state # NoDbState
       THEN ReturnId(w, "skipped", SkippedEpicId(state))
       ELSE IF dry_run
       THEN ReturnId(w, IF state = NoDbState THEN "created" ELSE "updated", DryRunId(epic.key))
       ELSE IF database_id = NoId
       THEN Raise(w, "Sprints database_id not configured")
       ELSE IF state = NoDbState
       THEN IF f = 1
            THEN Raise(Failed(w, "create_database_entry", epic.key, NoId), "create_database_entry")
            ELSE LET page_id == NewId(w)
                     w1 == CreateDatabaseEntry(w, epic.key, database_id, properties)
                 IN ReturnId(SaveDbState(w1, NewEpicState(epic, page_id)), "created", page_id)
       ELSE LET page_id == state.notion_page_id
            IN IF f = 1
               THEN Raise(Failed(w, "update_database_entry", epic.key, page_id),
                          "update_database_entry")
               ELSE LET w1 == UpdateDatabaseEntry(w, epic.key, page_id, properties)
                    IN ReturnId(SaveDbState(w1, NewEpicState(epic, page_id)), "updated", page_id)

(***************************************************************************)
(* DbSyncEngine._sync_story                                                *)
(***************************************************************************)
\* variant: force is not consulted for a story that has content
NeedsSyncStory_ForceIgnored(force, state, story) ==
    IF StoryContentHash(story) # NoHash
    THEN state = NoDbState \/ state.content_hash # StoryContentHash(story)
    ELSE LET mtime_changed == /\ state # NoDbState
                              /\ story.mtime # NoMtime
                              /\ state.last_synced_mtime # story.mtime
         IN force \/ state = NoDbState \/ mtime_changed

\* variant: modification time decides for every story
NeedsSyncStory_ByMtime(force, state, story) ==
    LET mtime_changed == /\ state # NoDbState
                         /\ story.mtime # NoMtime
                         /\ state.last_synced_mtime # story.mtime
    IN force \/ state = NoDbState \/ mtime_changed

NeedsSyncStory(force, state, story) ==
    IF StoryContentHash(story) # NoHash
    THEN LET hash_changed == /\ state # NoDbState
                             /\ state.content_hash # StoryContentHash(story)
         IN force \/ state = NoDbState \/ hash_changed
    ELSE LET mtime_changed == /\ state # NoDbState
                              /\ story.mtime # NoMtime
                              /\ state.last_synced_mtime # story.mtime
         IN force \/ state = NoDbState \/ mtime_changed

\* variant: the Sprint relation is left out
StoryProperties_NoSprint(tasks_config, story, epic_page_id, project_page_id) ==
    [name |-> story.title,
     status |-> MapStatus(tasks_config.status_mapping, story.status),
     key |-> story.key,
     Sprint |-> NoId,
     Project |-> project_page_id]

\* variant: the Project relation is left out
StoryProperties_NoProject(tasks_config, story, epic_page_id, project_page_id) ==
    [name |-> story.title,
     status |-> MapStatus(tasks_config.status_mapping, story.status),
     key |-> story.key,
     Sprint |-> epic_page_id,
     Project |-> NoId]

StoryProperties(tasks_config, story, epic_page_id, project_page_id) ==
    [name |-> story.title,
     status |-> MapStatus(tasks_config.status_mapping, story.status),
     key |-> story.key,
     Sprint |-> epic_page_id,
     Project |-> project_page_id]

NewStoryState(story, page_id) ==
    [local_key |-> story.key, entity_type |-> "story", notion_page_id |-> page_id,
     last_synced_mtime |-> story.mtime, content_hash |-> StoryContentHash(story)]

\* "if story.content:" - the story has a non-empty text
HasContent(story) == story.content # NoContent /\ story.content # 0

CreateStory(w, story, database_id, properties, f) ==
    IF f = 1
    THEN Raise(Failed(w, "create_database_entry", story.key, NoId), "create_database_entry")
    ELSE LET page_id == NewId(w)
             w1 == CreateDatabaseEntry(w, story.key, database_id, properties)
         IN IF HasContent(story) /\ f = 2
            THEN Raise(Failed(w1, "append_blocks", story.key, page_id), "append_blocks")
            ELSE LET w2 == IF HasContent(story)
                           THEN AppendBlocks(w1, "append_blocks", story.key, page_id,
                                             story.content, MarkdownToBlocks(story.content))
                           ELSE w1
                 IN Return(SaveDbState(w2, NewStoryState(story, page_id)), "created")

\* variant: the record is saved as soon as the properties were updated
UpdateStory_SaveFirst(w, story, state, properties, f) ==
    LET page_id == state.notion_page_id
    IN IF f = 1
       THEN Raise(Failed(w, "update_database_entry", story.key, page_id), "update_database_entry")
       ELSE LET w1 == SaveDbState(UpdateDatabaseEntry(w, story.key, page_id, properties),
                                  NewStoryState(story, page_id))
            IN IF HasContent(story) /\ f = 2
               THEN Raise(Failed(w1, "clear_page_content", story.key, page_id),
                          "clear_page_content")
               ELSE IF HasContent(story) /\ f = 3
               THEN Raise(Failed(ClearPageContent(w1, story.key, page_id),
                                 "append_blocks", story.key, page_id), "append_blocks")
               ELSE Return(IF HasContent(story)
                           THEN AppendBlocks(ClearPageContent(w1, story.key, page_id),
                                             "append_blocks", story.key, page_id,
                                             story.content, MarkdownToBlocks(story.content))
                           ELSE w1, "updated")

UpdateStory(w, story, state, properties, f) ==
    LET page_id == state.notion_page_id
    IN IF f = 1
       THEN Raise(Failed(w, "update_database_entry", story.key, page_id), "update_database_entry")
       ELSE LET w1 == UpdateDatabaseEntry(w, story.key, page_id, properties)
            IN IF HasContent(story) /\ f = 2
               THEN Raise(Failed(w1, "clear_page_content", story.key, page_id),
                          "clear_page_content")
               ELSE IF HasContent(story) /\ f = 3
               THEN Raise(Failed(ClearPageContent(w1, story.key, page_id),
                                 "append_blocks", story.key, page_id), "append_blocks")
               ELSE LET w2 == IF HasContent(story)
                              THEN AppendBlocks(ClearPageContent(w1, story.key, page_id),
                                                "append_blocks", story.key, page_id,
                                                story.content, MarkdownToBlocks(story.content))
                              ELSE w1
                    IN Return(SaveDbState(w2, NewStoryState(story, page_id)), "updated")

SyncStory(w, cfg, story, epic_page_id, project_page_id, force, dry_run, f) ==
    LET state == GetDbState(w.dbTable, story.key)
        tasks_config == cfg.database_sync.tasks
        properties == StoryProperties(tasks_config, story, epic_page_id, project_page_id)
        database_id == tasks_config.database_id
    IN IF ~NeedsSyncStory(force, state, story) THEN Return(w, "skipped")
       ELSE IF dry_run THEN Return(w, IF state = NoDbState THEN "created" ELSE "updated")
       ELSE IF database_id = NoId THEN Raise(w, "Tasks database_id not configured")
       ELSE IF state = NoDbState THEN CreateStory(w, story, database_id, properties, f)
       ELSE UpdateStory(w, story, state, properties, f)

(***************************************************************************)
(* Configuration (config.py).  Only the fields the engines read.           *)
(***************************************************************************)
SprintsStatusMapping ==
    [s \in {"backlog", "in-progress", "done"} |->
        CASE s = "backlog" -> "Not Started"
          [] s = "in-progress" -> "In Progress"
          [] s = "done" -> "Done"]

TasksStatusMapping ==
    [s \in {"backlog", "ready-for-dev", "in-progress", "review", "done"} |->
        CASE s = "backlog" -> "Backlog"
          [] s = "ready-for-dev" -> "Ready"
          [] s = "in-progress" -> "In Progress"
          [] s = "review" -> "Review"
          [] s = "done" -> "Done"]

BaseConfig ==
    [project |-> "test-project",
     page_sync |-> [enabled |-> TRUE, parent_page_id |-> <<"parent123", 0>>,
                    documents |-> DocConfigs],
     database_sync |->
        [enabled |-> TRUE,
         projects |-> [database_id |-> <<"projects-db", 0>>, key_property |-> "BMADProject",
                       name_property |-> "Project name"],
         sprints |-> [database_id |-> <<"sprints-db-123", 0>>, key_property |-> "BMADEpic",
                      name_property |-> "Name", status_property |-> "Status",
                      status_mapping |-> SprintsStatusMapping],
         tasks |-> [database_id |-> <<"tasks-db-456", 0>>, key_property |-> "BMADStory",
                    name_property |-> "Name", status_property |-> "Status",
                    require_story_file |-> FALSE,
                    status_mapping |-> TasksStatusMapping]]]

\* a project that syncs its planning documents only
PageConfig ==
    [BaseConfig EXCEPT !.database_sync.enabled = FALSE,
                       !.database_sync.projects.database_id = NoId]

\* the same without a configured parent page
PageNoParentConfig == [PageConfig EXCEPT !.page_sync.parent_page_id = NoId]

\* a project that syncs its sprint data only
DbConfig == [BaseConfig EXCEPT !.page_sync.enabled = FALSE]

\* the same without a configured table for the epics, or for the stories
DbNoSprintsConfig == [DbConfig EXCEPT !.database_sync.sprints.database_id = NoId]

DbNoTasksConfig == [DbConfig EXCEPT !.database_sync.tasks.database_id = NoId]

\* a project that keeps an older PRD in a subdirectory: two configured
\* documents with distinct relative paths and the same file name
NestedDocConfigs ==
    << [path |-> <<"prd.md">>, title |-> "PRD - {project}"],
       [path |-> <<"archive", "prd.md">>, title |-> "Old PRD - {project}"] >>

NestedConfig == [PageConfig EXCEPT !.page_sync.documents = NestedDocConfigs]

PageConfigs == {PageConfig, PageNoParentConfig}

DbConfigs == {DbConfig, DbNoSprintsConfig, DbNoTasksConfig}

(***************************************************************************)
(* Results.                                                                *)
(***************************************************************************)
DbSyncResult ==
    [epics_created |-> 0, epics_updated |-> 0, epics_skipped |-> 0, epics_failed |-> 0,
     stories_created |-> 0, stories_updated |-> 0, stories_skipped |-> 0, stories_failed |-> 0,
     errors |-> <<>>]

EpicTally(res, action, error) ==
    CASE action = "created" -> [res EXCEPT !.epics_created = @ + 1]
      [] action = "updated" -> [res EXCEPT !.epics_updated = @ + 1]
      [] action = "skipped" -> [res EXCEPT !.epics_skipped = @ + 1]
      [] action = "failed" -> [res EXCEPT !.epics_failed = @ + 1, !.errors = Append(@, error)]

StoryTally(res, action, error) ==
    CASE action = "created" -> [res EXCEPT !.stories_created = @ + 1]
      [] action = "updated" -> [res EXCEPT !.stories_updated = @ + 1]
      [] action = "skipped" -> [res EXCEPT !.stories_skipped = @ + 1]
      [] action = "failed" -> [res EXCEPT !.stories_failed = @ + 1, !.errors = Append(@, error)]

SyncResult(created, updated, skipped, failed, errors) ==
    [created |-> created, updated |-> updated, skipped |-> skipped,
     failed |-> failed, errors |-> errors]

\* variant: a failed document adds its error string but is not counted
Tally_FailedUncounted(res, action, error) ==
    CASE action = "created" -> [res EXCEPT !.created = @ + 1]
      [] action = "updated" -> [res EXCEPT !.updated = @ + 1]
      [] action = "skipped" -> [res EXCEPT !.skipped = @ + 1]
      [] action = "failed" -> [res EXCEPT !.errors = Append(@, error)]

Tally(res, action, error) ==
    CASE action = "created" -> [res EXCEPT !.created = @ + 1]
      [] action = "updated" -> [res EXCEPT !.updated = @ + 1]
      [] action = "skipped" -> [res EXCEPT !.skipped = @ + 1]
      [] action = "failed" -> [res EXCEPT !.failed = @ + 1, !.errors = Append(@, error)]

\* history: the items of the call that just ended whose body was cleared by
\* an update that then raised while appending the new body
Unfinished ==
    LET items == {calls[n].item : n \in {m \in 1..Len(calls) :
                     /\ ~calls[m].ok
                     /\ calls[m].op \in {"append_blocks", "append_blocks_in_batches"}
                     /\ \E k \in 1..(m - 1) : /\ calls[k].item = calls[m].item
                                              /\ calls[k].op = "clear_page_content"
                                              /\ calls[k].ok}}
    IN IF items = {} THEN [engine |-> None, force |-> FALSE, items |-> {}]
       ELSE [engine |-> run.engine, force |-> run.force, items |-> items]

Snapshot == [pageTable |-> pageTable, dbTable |-> dbTable, sync_db |-> sync_db,
             remote |-> remote, lastOk |-> lastOk,
             afterChange |-> afterChange, unfinished |-> Unfinished]

Idle == pc \in {"idle", "returned", "raised"}

\* the engines are handed an opened Store
CanCall == Idle /\ runs < MaxRuns /\ sync_db.exists

\* variant: an item that raises ends its loop
AfterItem_Abort(i, action, total) == IF action = "failed" THEN total + 1 ELSE i + 1

\* the loops go on to the next item whether the item succeeded or raised
AfterItem(i, action, total) == i + 1

(***************************************************************************)
(* PageSyncEngine.sync                                                     *)
(***************************************************************************)
\* the items of a page run that were synced by an earlier real run and whose
\* content differs now
ChangedDocs(items, ok) ==
    {i \in 1..Len(items) : ok[items[i].path] \notin {NoContent, items[i].content}}

FreshDocs(items, ok) ==
    {i \in 1..Len(items) : ok[items[i].path] = items[i].content}

\* exactly one document of the run changed since it was synced, the others
\* are as they were synced
OneChanged(items, ok) ==
    /\ Cardinality(ChangedDocs(items, ok)) = 1
    /\ ChangedDocs(items, ok) \cup FreshDocs(items, ok) = 1..Len(items)

NoChangeRun == [kind |-> "no", items |-> {}]

\* variant: without a parent the pages go under a page of their own
ParentPageId_Fallback(project_page_id, cfg) ==
    IF project_page_id # NoId THEN project_page_id
    ELSE IF cfg.page_sync.parent_page_id # NoId THEN cfg.page_sync.parent_page_id
    ELSE <<"project-page", 0>>

\* project_page_id or self.config.page_sync.parent_page_id
ParentPageId(project_page_id, cfg) ==
    IF project_page_id # NoId THEN project_page_id ELSE cfg.page_sync.parent_page_id

PageSyncBegin(force, dry_run, project_page_id, filter_path) ==
    /\ CanCall
    /\ runs' = runs + 1
    /\ calls' = <<>>
    /\ progress' = <<>>
    /\ start' = Snapshot
    /\ LET parent_page_id == ParentPageId(project_page_id, config)
           documents == ScanDocuments(config, docFiles)
           filtered == IF filter_path # None
                       THEN SelectSeq(documents, LAMBDA d : PathName(d.path) = filter_path)
                       ELSE documents
           r == [engine |-> "page", force |-> force, dry_run |-> dry_run,
                 project_page_id |-> project_page_id,
                 parent |-> parent_page_id, items |-> <<>>, i |-> 1]
       IN IF ~config.page_sync.enabled
          THEN /\ result' = SyncResult(0, 0, 0, 0, <<>>)
               /\ run' = r
               /\ pc' = "returned"
          ELSE IF parent_page_id = NoId
          THEN /\ result' = SyncResult(0, 0, 0, 1, << <<"No parent page ID", None>> >>)
               /\ run' = r
               /\ pc' = "returned"
          ELSE IF filter_path # None /\ filtered = <<>>
          THEN /\ result' = SyncResult(0, 0, 0, 1, << <<"Document not found", filter_path>> >>)
               /\ run' = r
               /\ pc' = "returned"
          ELSE /\ result' = SyncResult(0, 0, 0, 0, <<>>)
               /\ run' = [r EXCEPT !.items = filtered]
               /\ pc' = "page"
    /\ UNCHANGED <<config, docFiles, ledger, epicFiles, storyFiles, clock, pageTable, dbTable, sync_db,
                   remote, lastOk, afterChange, failures>>

\* one iteration of the loop over the documents, with its try/except
PageSyncDocument(f, part) ==
    /\ pc = "page"
    /\ run.i <= Len(run.items)
    /\ LET doc == run.items[run.i]
           name == PathName(doc.path)
           r == SyncDocument(World, doc, run.parent, run.force, run.dry_run, f, part)
       IN /\ pageTable' = r.w.pageTable
          /\ dbTable' = r.w.dbTable
          /\ sync_db' = r.w.sync_db
          /\ remote' = r.w.remote
          /\ calls' = r.w.calls
          /\ result' = Tally(result, r.action, <<"Failed to sync", name, r.err>>)
          /\ progress' = Append(progress, <<name, r.action, run.i, Len(run.items)>>)
          /\ lastOk' = IF run.dry_run THEN lastOk
                       ELSE [lastOk EXCEPT ![doc.path] =
                                IF r.action = "failed" THEN NoContent ELSE doc.content]
          /\ run' = [run EXCEPT !.i = AfterItem(@, r.action, Len(run.items))]
    /\ UNCHANGED <<config, docFiles, ledger, epicFiles, storyFiles, clock, pc, start,
                   afterChange, runs>>
    /\ failures' = failures + RaisedCalls(calls') - RaisedCalls(calls)
    /\ failures' <= MaxFailures

PageSyncReturn ==
    /\ pc = "page"
    /\ run.i > Len(run.items)
    /\ pc' = "returned"
    /\ afterChange' =
          IF ~run.force /\ OneChanged(run.items, start.lastOk)
          THEN [kind |-> IF ~run.dry_run /\ result.failed = 0 THEN "real" ELSE "other",
                items |-> {run.items[i].path : i \in 1..Len(run.items)}]
          ELSE NoChangeRun
    /\ UNCHANGED <<config, docFiles, ledger, epicFiles, storyFiles, clock, pageTable, dbTable, sync_db,
                   remote, run, result, calls, progress, start, lastOk, runs, failures>>

(***************************************************************************)
(* DbSyncEngine.sync                                                       *)
(***************************************************************************)
\* variant: the story loop does not wait for the epic loop
EpicsLoopDone_Early(r) == TRUE

\* the epic loop has run to its end
EpicsLoopDone(r) == r.i > Len(r.epics)

\* variant: the map is looked up with the story's own key
LookupEpicPageId_ByStoryKey(epic_id_map, story) ==
    IF story.key \in DOMAIN epic_id_map THEN epic_id_map[story.key] ELSE NoId

\* epic_id_map.get(story.epic_key)
LookupEpicPageId(epic_id_map, story) ==
    IF story.epic_key \in DOMAIN epic_id_map THEN epic_id_map[story.epic_key] ELSE NoId

\* the stories left by filter_key
FilterStories(stories, filter_key) ==
    IF filter_key = NoKey THEN stories
    ELSE IF IsEpicKey(filter_key) THEN <<>>
    ELSE SelectSeq(stories, LAMBDA st : st.key = filter_key)

\* variant: a story filter leaves the epics as scanned
FilterEpics_All(epics, stories, filter_key) ==
    IF filter_key = NoKey THEN epics
    ELSE IF IsEpicKey(filter_key) THEN SelectSeq(epics, LAMBDA e : e.key = filter_key)
    ELSE epics

\* the epics left by filter_key; stories are the scanned stories
FilterEpics(epics, stories, filter_key) ==
    LET stories2 == SelectSeq(stories, LAMBDA st : st.key = filter_key)
        epic_keys == {stories2[n].epic_key : n \in 1..Len(stories2)}
    IN IF filter_key = NoKey THEN epics
       ELSE IF IsEpicKey(filter_key) THEN SelectSeq(epics, LAMBDA e : e.key = filter_key)
       ELSE IF stories2 # <<>> THEN SelectSeq(epics, LAMBDA e : e.key \in epic_keys)
       ELSE epics

\* variant: a missing ledger file is not noticed
SprintStatusMissing_Never(entries) == FALSE

\* not status_path.exists()
SprintStatusMissing(entries) == entries = NoLedger

DbSyncBegin(force, dry_run, project_page_id, filter_key) ==
    /\ CanCall
    /\ runs' = runs + 1
    /\ calls' = <<>>
    /\ progress' = <<>>
    /\ start' = Snapshot
    /\ LET r == [engine |-> "db", force |-> force, dry_run |-> dry_run,
                 filter_key |-> filter_key,
                 project |-> project_page_id, epics |-> <<>>, stories |-> <<>>,
                 i |-> 1, j |-> 1, epic_id_map |-> <<>>]
           scanned == ScanSprintStatus(ledger, epicFiles, storyFiles)
           stories1 == IF config.database_sync.tasks.require_story_file
                       THEN SelectSeq(scanned.stories, LAMBDA st : st.has_file)
                       ELSE scanned.stories
           epics == FilterEpics(scanned.epics, stories1, filter_key)
           stories == FilterStories(stories1, filter_key)
       IN IF ~config.database_sync.enabled
          THEN /\ result' = DbSyncResult
               /\ run' = r
               /\ pc' = "returned"
          ELSE IF SprintStatusMissing(ledger)
          THEN /\ result' = [raised |-> "SprintStatusNotFoundError"]
               /\ run' = r
               /\ pc' = "raised"
          ELSE /\ result' = DbSyncResult
               /\ run' = [r EXCEPT !.epics = epics, !.stories = stories]
               /\ pc' = "db"
    /\ UNCHANGED <<config, docFiles, ledger, epicFiles, storyFiles, clock, pageTable, dbTable, sync_db,
                   remote, lastOk, afterChange, failures>>

\* one iteration of the loop over the epics, with its try/except
DbSyncEpic(f) ==
    /\ pc = "db"
    /\ run.i <= Len(run.epics)
    /\ LET epic == run.epics[run.i]
           r == SyncEpic(World, config, epic, run.force, run.dry_run, f)
       IN /\ pageTable' = r.w.pageTable
          /\ dbTable' = r.w.dbTable
          /\ sync_db' = r.w.sync_db
          /\ remote' = r.w.remote
          /\ calls' = r.w.calls
          /\ result' = EpicTally(result, r.action, <<"Failed to sync epic", epic.key, r.err>>)
          /\ progress' = Append(progress, <<"epic", epic.key, r.action, run.i, Len(run.epics)>>)
          /\ run' = [run EXCEPT !.i = AfterItem(@, r.action, Len(run.epics)),
                                !.epic_id_map = IF r.action = "failed" THEN @
                                                ELSE Upsert(@, epic.key, r.page_id)]
          /\ lastOk' = IF run.dry_run THEN lastOk
                       ELSE [lastOk EXCEPT ![epic.key] =
                                IF r.action = "failed" THEN NeverSynced ELSE epic]
    /\ UNCHANGED <<config, docFiles, ledger, epicFiles, storyFiles, clock, pc, start,
                   afterChange, runs>>
    /\ failures' = failures + RaisedCalls(calls') - RaisedCalls(calls)
    /\ failures' <= MaxFailures

\* one iteration of the loop over the stories, with its try/except
DbSyncStory(f) ==
    /\ pc = "db"
    /\ EpicsLoopDone(run)
    /\ run.j <= Len(run.stories)
    /\ LET story == run.stories[run.j]
           epic_page_id == LookupEpicPageId(run.epic_id_map, story)
           r == SyncStory(World, config, story, epic_page_id, run.project,
                          run.force, run.dry_run, f)
       IN /\ pageTable' = r.w.pageTable
          /\ dbTable' = r.w.dbTable
          /\ sync_db' = r.w.sync_db
          /\ remote' = r.w.remote
          /\ calls' = r.w.calls
          /\ result' = StoryTally(result, r.action, <<"Failed to sync story", story.key, r.err>>)
          /\ progress' = Append(progress, <<"story", story.key, r.action, run.j, Len(run.stories)>>)
          /\ lastOk' = IF run.dry_run THEN lastOk
                       ELSE [lastOk EXCEPT ![story.key] =
                                IF r.action = "failed" THEN NeverSynced ELSE story]
          /\ run' = [run EXCEPT !.j = AfterItem(@, r.action, Len(run.stories))]
    /\ UNCHANGED <<config, docFiles, ledger, epicFiles, storyFiles, clock, pc, start,
                   afterChange, runs>>
    /\ failures' = failures + RaisedCalls(calls') - RaisedCalls(calls)
    /\ failures' <= MaxFailures

DbSyncReturn ==
    /\ pc = "db"
    /\ EpicsLoopDone(run)
    /\ run.j > Len(run.stories)
    /\ pc' = "returned"
    /\ UNCHANGED <<config, docFiles, ledger, epicFiles, storyFiles, clock, pageTable, dbTable, sync_db,
                   remote, run, result, calls, progress, start, lastOk, afterChange, runs, failures>>

(***************************************************************************)
(* ProjectSyncEngine                                                       *)
(***************************************************************************)
\* f"project:{project_key}"
LocalProjectKey(project_key) == <<"project:", project_key>>

DryRunProjectId(project_key) == <<"dry-run-project", project_key>>

\* variant: the record is saved under the bare project key
NewProjectState_BareKey(project_key, page_id) ==
    [local_key |-> <<project_key>>, entity_type |-> "project",
     notion_page_id |-> page_id, last_synced_mtime |-> NoMtime, content_hash |-> NoHash]

NewProjectState(project_key, page_id) ==
    [local_key |-> LocalProjectKey(project_key), entity_type |-> "project",
     notion_page_id |-> page_id, last_synced_mtime |-> NoMtime, content_hash |-> NoHash]

ProjectProperties(project_key) == [name |-> project_key, key |-> project_key]

\* the rows of the projects database whose key property equals project_key
ProjectRows(w, database_id, project_key) ==
    {id \in DOMAIN w.remote : /\ w.remote[id].kind = "row"
                              /\ w.remote[id].parent = database_id
                              /\ w.remote[id].props.key = project_key}

\* variant: the answer of the query is ignored
FindProjectByKey_NotFound(w, cfg, project_key, f, ds, row) ==
    LET database_id == cfg.database_sync.projects.database_id
    IN IF f = 1 THEN Raise(Failed(w, "databases.retrieve", project_key, database_id),
                           "databases.retrieve")
       ELSE LET w1 == Logged(w, "databases.retrieve", project_key, database_id, TRUE, None)
            IN IF ~ds THEN ReturnId(w1, "found", NoId)
               ELSE IF f = 2 THEN Raise(Failed(w1, "data_sources.query", project_key, database_id),
                                        "data_sources.query")
               ELSE ReturnId(Logged(w1, "data_sources.query", project_key, database_id, TRUE,
                                    [results |-> row]),
                             "found", NoId)

\* ProjectSyncEngine._find_project_by_key; ds tells whether the database
\* lists a data source, row is the first row of the query's answer
FindProjectByKey(w, cfg, project_key, f, ds, row) ==
    LET database_id == cfg.database_sync.projects.database_id
    IN IF f = 1 THEN Raise(Failed(w, "databases.retrieve", project_key, database_id),
                           "databases.retrieve")
       ELSE LET w1 == Logged(w, "databases.retrieve", project_key, database_id, TRUE, None)
            IN IF ~ds THEN ReturnId(w1, "found", NoId)
               ELSE IF f = 2 THEN Raise(Failed(w1, "data_sources.query", project_key, database_id),
                                        "data_sources.query")
               ELSE ReturnId(Logged(w1, "data_sources.query", project_key, database_id, TRUE,
                                    [results |-> row]),
                             "found", row)

\* ProjectSyncEngine._create_project
CreateProject(w, cfg, project_key, f) ==
    IF f = 3 THEN Raise(Failed(w, "pages.create", project_key, NoId), "pages.create")
    ELSE LET page_id == NewId(w)
             w1 == [w EXCEPT !.remote = Upsert(@, page_id,
                       [kind |-> "row", item |-> LocalProjectKey(project_key),
                        parent |-> cfg.database_sync.projects.database_id,
                        props |-> ProjectProperties(project_key),
                        body |-> [src |-> NoContent, n |-> 0]])]
         IN ReturnId(Logged(w1, "pages.create", project_key, page_id, TRUE,
                            ProjectProperties(project_key)), "created", page_id)

ProjectReturn(w, page_id, was_created) ==
    [w |-> w, err |-> None, value |-> [page_id |-> page_id, was_created |-> was_created]]

ProjectRaise(w, err) ==
    [w |-> w, err |-> err, value |-> [page_id |-> NoId, was_created |-> FALSE]]

\* variant: dry_run is not looked at
GetOrCreate_NoDryRun(w, cfg, dry_run, f, ds, row) ==
    LET project_key == cfg.project
        state == GetDbState(w.dbTable, LocalProjectKey(project_key))
    IN IF cfg.database_sync.projects.database_id = NoId
       THEN ProjectRaise(w, "Projects database_id not configured")
       ELSE IF state # NoDbState THEN ProjectReturn(w, state.notion_page_id, FALSE)
       ELSE LET existing == FindProjectByKey(w, cfg, project_key, f, ds, row)
            IN IF existing.err # None THEN ProjectRaise(existing.w, existing.err)
               ELSE IF existing.page_id # NoId
               THEN ProjectReturn(SaveDbState(existing.w,
                                      NewProjectState(project_key, existing.page_id)),
                                  existing.page_id, FALSE)
               ELSE LET created == CreateProject(existing.w, cfg, project_key, f)
                    IN IF created.err # None THEN ProjectRaise(created.w, created.err)
                       ELSE ProjectReturn(SaveDbState(created.w,
                                              NewProjectState(project_key, created.page_id)),
                                          created.page_id, TRUE)

\* variant: the dry_run test comes before the lookup of the project record
GetOrCreate_DryRunFirst(w, cfg, dry_run, f, ds, row) ==
    LET project_key == cfg.project
        state == GetDbState(w.dbTable, LocalProjectKey(project_key))
    IN IF cfg.database_sync.projects.database_id = NoId
       THEN ProjectRaise(w, "Projects database_id not configured")
       ELSE IF dry_run THEN ProjectReturn(w, DryRunProjectId(project_key), TRUE)
       ELSE IF state # NoDbState THEN ProjectReturn(w, state.notion_page_id, FALSE)
       ELSE LET existing == FindProjectByKey(w, cfg, project_key, f, ds, row)
            IN IF existing.err # None THEN ProjectRaise(existing.w, existing.err)
               ELSE IF existing.page_id # NoId
               THEN ProjectReturn(SaveDbState(existing.w,
                                      NewProjectState(project_key, existing.page_id)),
                                  existing.page_id, FALSE)
               ELSE LET created == CreateProject(existing.w, cfg, project_key, f)
                    IN IF created.err # None THEN ProjectRaise(created.w, created.err)
                       ELSE ProjectReturn(SaveDbState(created.w,
                                              NewProjectState(project_key, created.page_id)),
                                          created.page_id, TRUE)

\* ProjectSyncEngine.get_or_create_project
GetOrCreate(w, cfg, dry_run, f, ds, row) ==
    LET project_key == cfg.project
        state == GetDbState(w.dbTable, LocalProjectKey(project_key))
    IN IF cfg.database_sync.projects.database_id = NoId
       THEN ProjectRaise(w, "Projects database_id not configured")
       ELSE IF state # NoDbState THEN ProjectReturn(w, state.notion_page_id, FALSE)
       ELSE IF dry_run THEN ProjectReturn(w, DryRunProjectId(project_key), TRUE)
       ELSE LET existing == FindProjectByKey(w, cfg, project_key, f, ds, row)
            IN IF existing.err # None THEN ProjectRaise(existing.w, existing.err)
               ELSE IF existing.page_id # NoId
               THEN ProjectReturn(SaveDbState(existing.w,
                                      NewProjectState(project_key, existing.page_id)),
                                  existing.page_id, FALSE)
               ELSE LET created == CreateProject(existing.w, cfg, project_key, f)
                    IN IF created.err # None THEN ProjectRaise(created.w, created.err)
                       ELSE ProjectReturn(SaveDbState(created.w,
                                              NewProjectState(project_key, created.page_id)),
                                          created.page_id, TRUE)

\* a call of get_or_create_project by the command line
GetOrCreateProject(dry_run, f, ds) ==
    /\ CanCall
    /\ runs' = runs + 1
    /\ start' = Snapshot
    /\ progress' = <<>>
    /\ LET w0 == [World EXCEPT !.calls = <<>>]
           rows == ProjectRows(w0, config.database_sync.projects.database_id, config.project)
       IN \E row \in IF rows = {} THEN {NoId} ELSE rows :
            LET r == GetOrCreate(w0, config, dry_run, f, ds, row)
            IN /\ pageTable' = r.w.pageTable
               /\ dbTable' = r.w.dbTable
               /\ sync_db' = r.w.sync_db
               /\ remote' = r.w.remote
               /\ calls' = r.w.calls
               /\ run' = [engine |-> "project", dry_run |-> dry_run]
               /\ IF r.err # None
                  THEN result' = [raised |-> r.err] /\ pc' = "raised"
                  ELSE result' = r.value /\ pc' = "returned"
    /\ failures' = failures + RaisedCalls(calls')
    /\ failures' <= MaxFailures
    /\ UNCHANGED <<config, docFiles, ledger, epicFiles, storyFiles, clock, lastOk, afterChange>>

\* ProjectSyncEngine.get_project_page_id
GetProjectPageId(table, cfg) ==
    LET state == GetDbState(table, LocalProjectKey(cfg.project))
    IN IF state # NoDbState THEN state.notion_page_id ELSE NoId

(***************************************************************************)
(* The user edits local files between engine calls.                        *)
(***************************************************************************)
NoRun == [engine |-> None]

NoSnapshot == [pageTable |-> <<>>, dbTable |-> <<>>, sync_db |-> NoSyncDb,
               remote |-> <<>>, lastOk |-> <<>>,
               afterChange |-> NoChangeRun,
               unfinished |-> [engine |-> None, force |-> FALSE, items |-> {}]]

\* once the user goes back to editing, the last call's return value is gone
Forgotten ==
    /\ pc' = "idle"
    /\ run' = NoRun
    /\ result' = SyncResult(0, 0, 0, 0, <<>>)
    /\ calls' = <<>>
    /\ progress' = <<>>
    /\ start' = NoSnapshot

WriteDoc(path, content) ==
    /\ Idle
    /\ config.page_sync.enabled
    /\ clock <= MaxEdits
    /\ clock' = clock + 1
    /\ docFiles' = [docFiles EXCEPT ![path] = [content |-> content, mtime |-> clock + 1]]
    /\ afterChange' = IF docFiles[path].content = content THEN afterChange ELSE NoChangeRun
    /\ Forgotten
    /\ UNCHANGED <<config, ledger, epicFiles, storyFiles, pageTable, dbTable, sync_db, remote, lastOk,
                   runs, failures>>

WriteStory(key, content) ==
    /\ Idle
    /\ config.database_sync.enabled
    /\ clock <= MaxEdits
    /\ clock' = clock + 1
    /\ storyFiles' = [storyFiles EXCEPT ![key] = [content |-> content, mtime |-> clock + 1]]
    /\ Forgotten
    /\ UNCHANGED <<config, docFiles, ledger, epicFiles, pageTable, dbTable, sync_db, remote, lastOk,
                   afterChange, runs, failures>>

WriteEpic(key, content) ==
    /\ Idle
    /\ config.database_sync.enabled
    /\ clock <= MaxEdits
    /\ clock' = clock + 1
    /\ epicFiles' = [epicFiles EXCEPT ![key] = [content |-> content, mtime |-> clock + 1]]
    /\ Forgotten
    /\ UNCHANGED <<config, docFiles, ledger, storyFiles, pageTable, dbTable, sync_db, remote, lastOk,
                   afterChange, runs, failures>>

\* the statuses a ledger entry is edited to: a mapped one, an unmapped one
EditedStatuses == {"done", "blocked"}

\* sprint-status.yaml is edited: the n-th entry gets another status; no epic
\* or story file is touched
WriteStatus(n, status) ==
    /\ Idle
    /\ config.database_sync.enabled
    /\ clock <= MaxEdits
    /\ n \in 1..Len(ledger)
    /\ ledger[n].status # status
    /\ clock' = clock + 1
    /\ ledger' = [ledger EXCEPT ![n].status = status]
    /\ Forgotten
    /\ UNCHANGED <<config, docFiles, epicFiles, storyFiles, pageTable, dbTable, sync_db, remote,
                   lastOk, afterChange, runs, failures>>

(***************************************************************************)
(* The Store methods called directly: each opens a connection, runs one    *)
(* statement and commits.                                                  *)
(***************************************************************************)
\* the keys and records the direct calls are made with; a page record names
\* a remote page that exists
RemoteIdsOf(kind) == {id \in DOMAIN remote : remote[id].kind = kind}

StorePaths == {PathName(DocConfigs[d].path) : d \in 1..Len(DocConfigs)}

PageStates ==
    [local_path : StorePaths, notion_page_id : RemoteIdsOf("page"), last_synced_mtime : {1},
     content_hash : {Md5(0)}]

StoreKeys == {<<"epic", "1">>, <<"1", "1", "x">>}

\* last_synced_mtime and content_hash are nullable columns
DbStates ==
    UNION {{[local_key |-> k, entity_type |-> IF IsEpicKey(k) THEN "epic" ELSE "story",
             notion_page_id |-> RemoteId(1), last_synced_mtime |-> n[1],
             content_hash |-> n[2]] :
                n \in IF IsEpicKey(k) THEN {<<1, NoHash>>}
                      ELSE {<<1, Md5(1)>>, <<NoMtime, NoHash>>}} : k \in StoreKeys}

\* a call with its argument; result is what it returns
StoreCall(op, arg, value) ==
    /\ pc' = "returned"
    /\ run' = [engine |-> "store", op |-> op, arg |-> arg]
    /\ result' = value
    /\ calls' = <<>>
    /\ progress' = <<>>
    /\ start' = Snapshot
    /\ UNCHANGED <<config, docFiles, ledger, epicFiles, storyFiles, clock, remote, lastOk,
                   afterChange, runs, failures>>

\* Store(project_root)
OpenStore ==
    /\ Idle
    /\ sync_db' = StoreInitDb(sync_db)
    /\ StoreCall("Store", None, None)
    /\ UNCHANGED <<pageTable, dbTable>>

CallSavePageState(state) ==
    /\ Idle /\ sync_db.exists
    /\ LET w == SavePageState(World, state)
       IN pageTable' = w.pageTable /\ sync_db' = w.sync_db
    /\ StoreCall("save_page_state", state, None)
    /\ UNCHANGED dbTable

CallGetPageState(local_path) ==
    /\ Idle /\ sync_db.exists
    /\ StoreCall("get_page_state", local_path,
                 FetchOne(sync_db.page_sync_state, "local_path", local_path, NoPageState))
    /\ UNCHANGED <<pageTable, dbTable, sync_db>>

CallDeletePageState(local_path) ==
    /\ Idle /\ sync_db.exists
    /\ sync_db' = [sync_db EXCEPT !.page_sync_state = DeleteFrom(@, "local_path", local_path)]
    /\ pageTable' = Remove(pageTable, local_path)
    /\ StoreCall("delete_page_state", local_path, None)
    /\ UNCHANGED dbTable

CallSaveDbState(state) ==
    /\ Idle /\ sync_db.exists
    /\ LET w == SaveDbState(World, state)
       IN dbTable' = w.dbTable /\ sync_db' = w.sync_db
    /\ StoreCall("save_db_state", state, None)
    /\ UNCHANGED pageTable

CallGetDbState(local_key) ==
    /\ Idle /\ sync_db.exists
    /\ StoreCall("get_db_state", local_key,
                 FetchOne(sync_db.db_sync_state, "local_key", local_key, NoDbState))
    /\ UNCHANGED <<pageTable, dbTable, sync_db>>

CallGetDbStatesByType(entity_type) ==
    /\ Idle /\ sync_db.exists
    /\ StoreCall("get_db_states_by_type", entity_type,
                 GetDbStatesByType(sync_db.db_sync_state, entity_type))
    /\ UNCHANGED <<pageTable, dbTable, sync_db>>

CallDeleteDbState(local_key) ==
    /\ Idle /\ sync_db.exists
    /\ sync_db' = [sync_db EXCEPT !.db_sync_state = DeleteFrom(@, "local_key", local_key)]
    /\ dbTable' = Remove(dbTable, local_key)
    /\ StoreCall("delete_db_state", local_key, None)
    /\ UNCHANGED pageTable

(***************************************************************************)
(* Initial state: the local files as the user left them, and either a      *)
(* fresh store with an empty remote workspace or the store and workspace   *)
(* an earlier complete sync of these files left.                           *)
(***************************************************************************)
\* the planning artifacts at the start: a short first document, a second one
\* long enough to need an append after page creation, further ones absent
InitialDocFiles ==
    [p \in DocPaths |->
        IF p = DocConfigs[1].path THEN [content |-> 1, mtime |-> 1]
        ELSE IF p = DocConfigs[2].path THEN [content |-> 2, mtime |-> 1]
        ELSE NoFile]

\* the status ledger: two epics with one story each
MainLedger ==
    << [key |-> <<"epic", "1">>, status |-> "in-progress"],
       [key |-> <<"1", "1", "x">>, status |-> "done"],
       [key |-> <<"epic", "2">>, status |-> "backlog"],
       [key |-> <<"2", "1", "y">>, status |-> "backlog"] >>

LedgerKeys == {MainLedger[n].key : n \in 1..Len(MainLedger)}

EpicKeys == {k \in LedgerKeys : IsEpicKey(k)}

StoryKeys == {k \in LedgerKeys : ~IsEpicKey(k) /\ ~IsRetrospectiveKey(k)}

\* epic 1 has a file, epic 2 has none
InitialEpicFiles ==
    [k \in EpicKeys |-> IF k = <<"epic", "1">> THEN [content |-> 1, mtime |-> 1] ELSE NoFile]

\* only story 1-1-x has a backing file
InitialStoryFiles ==
    [k \in StoryKeys |-> IF k = <<"1", "1", "x">> THEN [content |-> 1, mtime |-> 1] ELSE NoFile]

\* the store and the remote workspace an earlier complete page sync left
SyncedPageTable(files) ==
    [n \in {PathName(DocConfigs[d].path) : d \in 1..2} |->
        LET d == CHOOSE d \in 1..2 : PathName(DocConfigs[d].path) = n
            file == files[DocConfigs[d].path]
        IN [local_path |-> n, notion_page_id |-> RemoteId(d),
            last_synced_mtime |-> file.mtime, content_hash |-> Md5(file.content)]]

SyncedPages(cfg, files) ==
    [id \in {RemoteId(1), RemoteId(2)} |->
        LET d == DocConfigs[id[2]]
        IN [kind |-> "page", item |-> PathName(d.path), parent |-> cfg.page_sync.parent_page_id,
            props |-> [title |-> FormatTitle(d.title, cfg.project)],
            body |-> [src |-> files[d.path].content,
                      n |-> MarkdownToBlocks(files[d.path].content)]]]

\* the store and the remote workspace an earlier complete database sync
\* (without a project id) left: rows 1, 2 are the epics, rows 3, 4 the stories
SyncedScan == ScanSprintStatus(MainLedger, InitialEpicFiles, InitialStoryFiles)

SyncedDbTable ==
    [k \in LedgerKeys |->
        IF IsEpicKey(k)
        THEN LET n == CHOOSE n \in 1..2 : SyncedScan.epics[n].key = k
             IN NewEpicState(SyncedScan.epics[n], RemoteId(n))
        ELSE LET n == CHOOSE n \in 1..2 : SyncedScan.stories[n].key = k
             IN NewStoryState(SyncedScan.stories[n], RemoteId(2 + n))]

SyncedRows(cfg) ==
    [id \in {RemoteId(n) : n \in 1..4} |->
        IF id[2] <= 2
        THEN LET epic == SyncedScan.epics[id[2]]
             IN [kind |-> "row", item |-> epic.key,
                 parent |-> cfg.database_sync.sprints.database_id,
                 props |-> EpicProperties(cfg.database_sync.sprints, epic),
                 body |-> [src |-> NoContent, n |-> 0]]
        ELSE LET story == SyncedScan.stories[id[2] - 2]
             IN [kind |-> "row", item |-> story.key,
                 parent |-> cfg.database_sync.tasks.database_id,
                 props |-> StoryProperties(cfg.database_sync.tasks, story,
                                           RemoteId((id[2] - 2)), NoId),
                 body |-> IF HasContent(story)
                          THEN [src |-> story.content, n |-> MarkdownToBlocks(story.content)]
                          ELSE [src |-> NoContent, n |-> 0]]]

SyncedItems ==
    [k \in LedgerKeys |->
        IF IsEpicKey(k)
        THEN SyncedScan.epics[CHOOSE n \in 1..2 : SyncedScan.epics[n].key = k]
        ELSE SyncedScan.stories[CHOOSE n \in 1..2 : SyncedScan.stories[n].key = k]]

\* a project row another machine's store created: this store has no record of it
ForeignId == <<"foreign", 1>>

ForeignProjectRow(cfg) ==
    [id \in {ForeignId} |->
        [kind |-> "row", item |-> LocalProjectKey(cfg.project),
         parent |-> cfg.database_sync.projects.database_id,
         props |-> ProjectProperties(cfg.project),
         body |-> [src |-> NoContent, n |-> 0]]]

\* the project_page_id argument of PageSyncEngine.sync: callers relying on
\* the configured parent pass none; without a configured parent they pass
\* the project row's id or none
ProjectIdArgs(cfg) ==
    IF cfg.page_sync.parent_page_id = NoId THEN {NoId, <<"project-page", 0>>} ELSE {NoId}

\* the filter_path arguments of PageSyncEngine.sync: none, a configured
\* document, a file that is not configured
FilterPaths == {None, PathName(DocConfigs[1].path), "missing.md"}

\* the filter_key arguments of DbSyncEngine.sync: none, an epic, a story, a
\* key the ledger does not hold
FilterKeys == {NoKey, <<"epic", "1">>, <<"1", "1", "x">>, <<"9", "9", "z">>}

InitCommon ==
    /\ clock = 1
    /\ epicFiles = InitialEpicFiles
    /\ storyFiles = InitialStoryFiles
    /\ pc = "idle"
    /\ run = NoRun
    /\ result = SyncResult(0, 0, 0, 0, <<>>)
    /\ calls = <<>>
    /\ progress = <<>>
    /\ start = NoSnapshot
    /\ afterChange = NoChangeRun
    /\ runs = 0
    /\ failures = 0

NeverSyncedItems == [k \in DocPaths |-> NoContent] @@ [k \in LedgerKeys |-> NeverSynced]

InitPage ==
    /\ InitCommon
    /\ docFiles = InitialDocFiles
    /\ ledger = MainLedger
    /\ config \in PageConfigs
    /\ dbTable = <<>>
    /\ \/ /\ pageTable = <<>>
          /\ remote = <<>>
          /\ lastOk = NeverSyncedItems
       \/ /\ config.page_sync.parent_page_id # NoId
          /\ pageTable = SyncedPageTable(docFiles)
          /\ remote = SyncedPages(config, docFiles)
          /\ lastOk = [p \in DocPaths |-> docFiles[p].content] @@ NeverSyncedItems
    /\ sync_db = StoredRows(pageTable, dbTable)

InitDb ==
    /\ InitCommon
    /\ docFiles = InitialDocFiles
    /\ ledger = MainLedger
    /\ config \in DbConfigs
    /\ pageTable = <<>>
    /\ \/ /\ dbTable = <<>>
          /\ remote = <<>>
          /\ lastOk = NeverSyncedItems
       \/ /\ config = DbConfig
          /\ dbTable = SyncedDbTable
          /\ remote = SyncedRows(config)
          /\ lastOk = SyncedItems @@ NeverSyncedItems
       \/ /\ config = DbConfig
          /\ dbTable = <<>>
          /\ remote = ForeignProjectRow(config)
          /\ lastOk = NeverSyncedItems
    /\ sync_db = StoredRows(pageTable, dbTable)

\* a ledger whose first story precedes every epic entry and belongs, by its
\* numeric prefix, to an epic the ledger does not list
OrphanLedger ==
    << [key |-> <<"3", "1", "z">>, status |-> "ready-for-dev"],
       [key |-> <<"epic", "1">>, status |-> "in-progress"],
       [key |-> <<"1", "1", "x">>, status |-> "done"] >>

InitOrphan ==
    /\ InitCommon
    /\ docFiles = InitialDocFiles
    /\ ledger = OrphanLedger
    /\ config = DbConfig
    /\ pageTable = <<>>
    /\ dbTable = <<>>
    /\ remote = <<>>
    /\ lastOk = NeverSyncedItems @@ [k \in {OrphanLedger[1].key} |-> NeverSynced]
    /\ sync_db = StoredRows(pageTable, dbTable)

\* a project synced earlier whose second document was deleted and whose
\* ledger lost its second epic and that epic's story since: the records and
\* the remote entities of the three are still there (rows 1..4, page 5)
LeftoverDocFiles == [InitialDocFiles EXCEPT ![DocConfigs[2].path] = NoFile]

LeftoverLedger == SubSeq(MainLedger, 1, 2)

LeftoverPageTable ==
    [n \in {PathName(DocConfigs[2].path)} |->
        [SyncedPageTable(InitialDocFiles)[n] EXCEPT !.notion_page_id = RemoteId(5)]]

LeftoverPages(cfg) ==
    [id \in {RemoteId(5)} |-> SyncedPages(cfg, InitialDocFiles)[RemoteId(2)]]

InitLeftover ==
    /\ InitCommon
    /\ docFiles = LeftoverDocFiles
    /\ ledger = LeftoverLedger
    /\ config = BaseConfig
    /\ pageTable = LeftoverPageTable
    /\ dbTable = SyncedDbTable
    /\ remote = SyncedRows(config) @@ LeftoverPages(config)
    /\ lastOk = SyncedItems @@ NeverSyncedItems
    /\ sync_db = StoredRows(pageTable, dbTable)

\* the ledgers the scanner is applied to on its own: up to MaxLedger entries
\* with distinct keys, among them epics, stories with and without a numeric
\* prefix, a story with a backing file and a retrospective entry
ScanKeys ==
    {<<"epic", "1">>, <<"epic", "2">>, <<"epic", "1", "retrospective">>,
     <<"1", "1", "x">>, <<"3", "1", "z">>, <<"misc", "task">>}

ScanLedgers ==
    {[n \in DOMAIN keys |-> [key |-> keys[n], status |-> "backlog"]] :
        keys \in {ks \in UNION {[1..n -> ScanKeys] : n \in 0..MaxLedger} :
                    \A i, j \in DOMAIN ks : ks[i] = ks[j] => i = j}}

InitScan ==
    /\ InitCommon
    /\ docFiles = InitialDocFiles
    /\ ledger \in ScanLedgers
    /\ config = DbConfig
    /\ pageTable = <<>>
    /\ dbTable = <<>>
    /\ remote = <<>>
    /\ lastOk = NeverSyncedItems
    /\ sync_db = StoredRows(pageTable, dbTable)

\* a project that no command was run in yet
InitStore ==
    /\ InitCommon
    /\ docFiles = InitialDocFiles
    /\ ledger = MainLedger
    /\ config = PageConfig
    /\ pageTable = <<>>
    /\ dbTable = <<>>
    /\ remote = <<>>
    /\ lastOk = NeverSyncedItems
    /\ sync_db = NoSyncDb

\* a project with both syncs enabled whose status ledger was never written
InitNoLedger ==
    /\ InitCommon
    /\ docFiles = InitialDocFiles
    /\ ledger = NoLedger
    /\ config = BaseConfig
    /\ pageTable = <<>>
    /\ dbTable = <<>>
    /\ remote = <<>>
    /\ lastOk = NeverSyncedItems
    /\ sync_db = StoredRows(pageTable, dbTable)

\* the project with the archived PRD, never synced: both files exist
InitNested ==
    /\ InitCommon
    /\ ledger = MainLedger
    /\ config = NestedConfig
    /\ docFiles = [p \in {NestedDocConfigs[d].path : d \in 1..2} |->
                      IF p = NestedDocConfigs[1].path THEN [content |-> 1, mtime |-> 1]
                      ELSE [content |-> 2, mtime |-> 1]]
    /\ pageTable = <<>>
    /\ dbTable = <<>>
    /\ remote = <<>>
    /\ lastOk = [p \in DOMAIN docFiles |-> NoContent]
    /\ sync_db = StoredRows(pageTable, dbTable)

PageEngine ==
    \/ \E force \in BOOLEAN, dry_run \in BOOLEAN, p \in ProjectIdArgs(config), fp \in FilterPaths :
          PageSyncBegin(force, dry_run, p, fp)
    \/ \E f \in 0..2, part \in BOOLEAN : PageSyncDocument(f, part)
    \/ PageSyncReturn

DbEngine ==
    \/ \E force \in BOOLEAN, dry_run \in BOOLEAN, fk \in FilterKeys :
          DbSyncBegin(force, dry_run, GetProjectPageId(dbTable, config), fk)
    \/ \E f \in 0..1 : DbSyncEpic(f)
    \/ \E f \in 0..3 : DbSyncStory(f)
    \/ DbSyncReturn

\* the command line resolves the project row before a database sync
ProjectEngine == \E dry_run \in BOOLEAN, f \in 0..3, ds \in BOOLEAN : GetOrCreateProject(dry_run, f, ds)

EditDocs == \E p \in DOMAIN docFiles, c \in Contents : WriteDoc(p, c)

EditSprint ==
    \/ \E k \in StoryKeys, c \in Contents : WriteStory(k, c)
    \/ \E k \in EpicKeys : WriteEpic(k, 1)

\* BMADScanner.scan_sprint_status called on its own
ScanSprintStatusCall ==
    /\ pc = "idle"
    /\ ~SprintStatusMissing(ledger)
    /\ pc' = "returned"
    /\ run' = [engine |-> "scan"]
    /\ result' = ScanSprintStatus(ledger, epicFiles, storyFiles)
    /\ UNCHANGED <<config, docFiles, ledger, epicFiles, storyFiles, clock, pageTable, dbTable,
                   sync_db, remote, calls, progress, start, lastOk, afterChange, runs,
                   failures>>

\* the Store methods, called on their own between sync runs
StoreMethods ==
    \/ OpenStore
    \/ \E state \in PageStates : CallSavePageState(state)
    \/ \E local_path \in StorePaths : CallGetPageState(local_path)
    \/ \E local_path \in StorePaths : CallDeletePageState(local_path)
    \/ \E state \in DbStates : CallSaveDbState(state)
    \/ \E local_key \in StoreKeys : CallGetDbState(local_key)
    \/ \E entity_type \in {"epic", "story"} : CallGetDbStatesByType(entity_type)
    \/ \E local_key \in StoreKeys : CallDeleteDbState(local_key)

NextPage == PageEngine \/ EditDocs

NextStore == StoreMethods \/ PageEngine

NextDb == ProjectEngine \/ DbEngine \/ EditSprint

Next == PageEngine \/ ProjectEngine \/ DbEngine \/ EditDocs \/ EditSprint

EditStatus == \E n \in 1..Len(MainLedger), status \in EditedStatuses : WriteStatus(n, status)

\* database sync runs on a project whose ledger statuses are edited
NextStatus == NextDb \/ EditStatus

\* a project whose Sprints table has no status property configured
DbNoStatusConfig == [DbConfig EXCEPT !.database_sync.sprints.status_property = None]

\* both table ids configured; the store is empty or holds what an earlier
\* complete database sync left
InitStatus ==
    /\ InitCommon
    /\ docFiles = InitialDocFiles
    /\ ledger = MainLedger
    /\ config \in {DbConfig, DbNoStatusConfig}
    /\ pageTable = <<>>
    /\ \/ /\ dbTable = <<>>
          /\ remote = <<>>
          /\ lastOk = NeverSyncedItems
       \/ /\ dbTable = SyncedDbTable
          /\ remote = SyncedRows(config)
          /\ lastOk = SyncedItems @@ NeverSyncedItems
    /\ sync_db = StoredRows(pageTable, dbTable)

SpecStatus == InitStatus /\ [][NextStatus]_vars

SpecPage == InitPage /\ [][NextPage]_vars

SpecDb == (InitDb \/ InitOrphan) /\ [][NextDb]_vars

Spec == (InitPage \/ InitDb \/ InitNoLedger) /\ [][Next]_vars

SpecNested == InitNested /\ [][NextPage]_vars

SpecStore == InitStore /\ [][NextStore]_vars

SpecLeftover == InitLeftover /\ [][Next]_vars

SpecScan == InitScan /\ [][ScanSprintStatusCall]_vars

(***************************************************************************)
(* Properties.                                                             *)
(***************************************************************************)
PageRunEnded == pc = "returned" /\ run.engine = "page"

DbRunEnded == pc = "returned" /\ run.engine = "db"

RunPaths == {run.items[i].path : i \in 1..Len(run.items)}

\* every epic and story of the run is as a real run last synced it
AllSprintItemsFresh ==
    /\ \A i \in 1..Len(run.epics) : start.lastOk[run.epics[i].key] = run.epics[i]
    /\ \A j \in 1..Len(run.stories) : start.lastOk[run.stories[j].key] = run.stories[j]

\* a remote call made for the item raised during this run
RaisedFor(item) == \E n \in 1..Len(calls) : calls[n].item = item /\ ~calls[n].ok

\* C1: when every document of a page sync run with force=false is as an
\* earlier real run synced it without failure (same content), the run
\* reports created=0 and updated=0, reports every document as skipped,
\* issues no remote call and no store write, and leaves the page records
\* as they were.
C1_SecondPageSyncSkipsAll ==
    (PageRunEnded /\ ~run.force /\ FreshDocs(run.items, start.lastOk) = 1..Len(run.items))
    => /\ result.created = 0
       /\ result.updated = 0
       /\ result.skipped = Len(run.items)
       /\ calls = <<>>
       /\ pageTable = start.pageTable
       /\ remote = start.remote

C1_Witness ==
    /\ PageRunEnded /\ ~run.force /\ runs = 2
    /\ Len(run.items) >= 2
    /\ FreshDocs(run.items, start.lastOk) = 1..Len(run.items)
    /\ result.skipped = Len(run.items)

\* C2: during and after a page or database sync called with dry_run=true,
\* whatever the store held and whatever force is, the store tables and the
\* remote store are as they were when the call began and no remote call or
\* store write was issued.
C2_DryRunChangesNothing ==
    (run.engine \in {"page", "db"} /\ run.dry_run)
    => /\ pageTable = start.pageTable
       /\ dbTable = start.dbTable
       /\ remote = start.remote
       /\ calls = <<>>

C2_Witness ==
    /\ PageRunEnded /\ run.dry_run /\ run.force
    /\ start.pageTable # <<>>
    /\ result.updated >= 1

\* C3: in every call log a successful create_child_page is followed at once
\* by the save_page_state of that page's record, before any append of the
\* remaining blocks; and whatever failed, no document ever has two remote
\* pages.
PagesOf(name) == {id \in DOMAIN remote : remote[id].kind = "page" /\ remote[id].item = name}

C3_RecordSavedBeforeAppend ==
    /\ \A n \in 1..Len(calls) :
          (calls[n].op = "create_child_page" /\ calls[n].ok)
          => /\ n < Len(calls)
             /\ calls[n + 1].op = "save_page_state"
             /\ calls[n + 1].item = calls[n].item
             /\ calls[n + 1].id = calls[n].id
    /\ \A p \in DocPaths : Cardinality(PagesOf(PathName(p))) <= 1

\* a later real run has processed a document whose page an earlier run
\* created without getting its remaining blocks appended
C3_Witness ==
    /\ PageRunEnded /\ ~run.dry_run
    /\ \E n \in 1..Len(progress) :
          LET name == progress[n][1]
          IN /\ progress[n][2] \in {"updated", "skipped"}
             /\ name \in DOMAIN start.pageTable
             /\ start.lastOk[run.items[n].path] = NoContent
             /\ LET id == start.pageTable[name].notion_page_id
                IN /\ id \in DOMAIN start.remote
                   /\ start.remote[id].body.n = PageBatch
                   /\ MarkdownToBlocks(start.remote[id].body.src) > PageBatch
                   /\ PagesOf(name) = {id}

\* C4 as stated: after one already-synced document's content changed, the
\* next run with force=false reports exactly one updated, and the run after
\* that, with no further change, reports zero created and zero updated.
C4_Original ==
    /\ (PageRunEnded /\ ~run.force /\ OneChanged(run.items, start.lastOk))
       => result.updated = 1
    /\ (PageRunEnded /\ ~run.force /\ start.afterChange.kind # "no"
           /\ RunPaths \subseteq start.afterChange.items)
       => (result.created = 0 /\ result.updated = 0)

\* C4 amended: the same, for a next run that is not a dry run and in which
\* no remote call fails.
C4_ChangeUpdatedOnce ==
    /\ (PageRunEnded /\ ~run.force /\ ~run.dry_run /\ result.failed = 0
           /\ OneChanged(run.items, start.lastOk))
       => /\ result.updated = 1
          /\ result.created = 0
          /\ \A n \in ChangedDocs(run.items, start.lastOk) : progress[n][2] = "updated"
    /\ (PageRunEnded /\ ~run.force /\ start.afterChange.kind = "real"
           /\ RunPaths \subseteq start.afterChange.items)
       => (result.created = 0 /\ result.updated = 0)

C4_Witness ==
    /\ PageRunEnded /\ ~run.force
    /\ start.afterChange.kind = "real"
    /\ RunPaths = start.afterChange.items
    /\ result.skipped = Len(run.items)

\* C5: under force=true an item that has a record and is as it was last
\* synced is never skipped and never created: it takes the update path (no
\* create call is made for it) and is tallied updated, or failed when a call
\* of that update raised; an item without a record takes the create path
\* (no clear or update call is made for it) and is never tallied updated.
CreateOps == {"create_child_page", "create_database_entry"}

UpdateOps == {"clear_page_content", "update_database_entry"}

OpsFor(item) == {calls[n].op : n \in {m \in 1..Len(calls) : calls[m].item = item}}

\* the run tallied the item failed for want of a configured table
ConfigErrors == {"Sprints database_id not configured", "Tasks database_id not configured"}

NotConfigured(item) ==
    /\ run.engine = "db"
    /\ \E k \in 1..Len(result.errors) :
          result.errors[k][2] = item /\ result.errors[k][3] \in ConfigErrors

TookUpdatePath(item, action) ==
    /\ action \in {"updated", "failed"}
    /\ action = "failed" => (RaisedFor(item) \/ NotConfigured(item))
    /\ OpsFor(item) \cap CreateOps = {}
    /\ (action = "updated" /\ ~run.dry_run) => OpsFor(item) \cap UpdateOps # {}

TookCreatePath(item, action) ==
    /\ action \in {"created", "failed"}
    /\ action = "failed" => (RaisedFor(item) \/ NotConfigured(item))
    /\ OpsFor(item) \cap UpdateOps = {}
    /\ (action = "created" /\ ~run.dry_run) => OpsFor(item) \cap CreateOps # {}

C5_ForceUpdatesSynced ==
    /\ (run.engine = "page" /\ run.force)
       => \A n \in 1..Len(progress) :
             LET doc == run.items[n]
                 name == PathName(doc.path)
             IN /\ (name \in DOMAIN start.pageTable /\ start.lastOk[doc.path] = doc.content)
                   => TookUpdatePath(name, progress[n][2])
                /\ name \notin DOMAIN start.pageTable
                   => TookCreatePath(name, progress[n][2])
    /\ (run.engine = "db" /\ run.force)
       => \A n \in 1..Len(progress) :
             LET key == progress[n][2]
                 item == IF progress[n][1] = "epic" THEN run.epics[progress[n][4]]
                         ELSE run.stories[progress[n][4]]
             IN /\ (key \in DOMAIN start.dbTable /\ start.lastOk[key] = item)
                   => TookUpdatePath(key, progress[n][3])
                /\ key \notin DOMAIN start.dbTable
                   => TookCreatePath(key, progress[n][3])

C5_Witness ==
    /\ DbRunEnded /\ run.force
    /\ Len(run.epics) = 2 /\ Len(run.stories) = 2
    /\ AllSprintItemsFresh
    /\ result.epics_updated = 2
    /\ result.stories_updated = 2

\* C6: within one database sync no call or record write for an epic comes
\* after a call for a story, no epic is tallied after a story, and once a
\* story has been processed every epic of the run has been.
C6_EpicsBeforeStories ==
    run.engine = "db"
    => /\ \A m, n \in 1..Len(calls) :
             (m < n /\ ~IsEpicKey(calls[m].item)) => ~IsEpicKey(calls[n].item)
       /\ \A m, n \in 1..Len(progress) :
             (m < n /\ progress[m][1] = "story") => progress[n][1] = "story"
       /\ (\E n \in 1..Len(progress) : progress[n][1] = "story")
          => Cardinality({n \in 1..Len(progress) : progress[n][1] = "epic"}) = Len(run.epics)

C6_Witness ==
    /\ pc = "db" /\ ~run.dry_run
    /\ \E n \in 1..Len(calls) : IsEpicKey(calls[n].item)
    /\ \E n \in 1..Len(calls) : ~IsEpicKey(calls[n].item)
    /\ run.j > 1

\* C7: the create call of a story carries, as its Sprint relation, the id
\* that the create call of its parent epic returned earlier in the same run.
StoryOf(key) == run.stories[CHOOSE j \in 1..Len(run.stories) : run.stories[j].key = key]

C7_StoryRelatesToNewEpic ==
    (run.engine = "db" /\ ~run.dry_run)
    => \A n \in 1..Len(calls) :
          (calls[n].op = "create_database_entry" /\ calls[n].ok /\ ~IsEpicKey(calls[n].item))
          => \A m \in 1..Len(calls) :
                (/\ calls[m].op = "create_database_entry"
                 /\ calls[m].ok
                 /\ calls[m].item = StoryOf(calls[n].item).epic_key
                 /\ calls[m].item \notin DOMAIN start.dbTable)
                => calls[n].props.Sprint = calls[m].id

C7_Witness ==
    /\ run.engine = "db" /\ ~run.dry_run
    /\ \E n, m \in 1..Len(calls) :
          /\ calls[n].op = "create_database_entry" /\ calls[n].ok
          /\ calls[m].op = "create_database_entry" /\ calls[m].ok
          /\ ~IsEpicKey(calls[n].item)
          /\ calls[m].item = StoryOf(calls[n].item).epic_key
          /\ calls[m].item \notin DOMAIN start.dbTable
          /\ calls[n].props.Sprint = calls[m].id
          /\ calls[m].id \in DOMAIN remote

\* C8: in both engines an item whose remote call raises is tallied as
\* failed, once, with one error string naming it; the loop goes on, so that
\* at the end every item of the run has been processed; the call itself
\* never raises once its loop has begun; and when exactly one of the N
\* stories failed, N-1 stories are reported created, updated or skipped.
FailedDocs == {n \in 1..Len(progress) : progress[n][2] = "failed"}

FailedOf(type) == {n \in 1..Len(progress) : progress[n][1] = type /\ progress[n][3] = "failed"}

ErrorsNaming(item) == {k \in 1..Len(result.errors) : result.errors[k][2] = item}

C8_FailuresAreIsolated ==
    /\ (run.engine = "page" /\ run.items # <<>>)
       => /\ pc # "raised"
          /\ result.failed = Cardinality(FailedDocs)
          /\ Len(result.errors) = Cardinality(FailedDocs)
          /\ \A n \in FailedDocs : Cardinality(ErrorsNaming(progress[n][1])) = 1
          /\ \A n \in 1..Len(calls) :
                ~calls[n].ok => \E m \in FailedDocs : progress[m][1] = calls[n].item
          /\ pc = "returned" => Len(progress) = Len(run.items)
    /\ (run.engine = "db" /\ pc \in {"db", "returned"})
       => /\ result.epics_failed = Cardinality(FailedOf("epic"))
          /\ result.stories_failed = Cardinality(FailedOf("story"))
          /\ Len(result.errors) = Cardinality(FailedOf("epic")) + Cardinality(FailedOf("story"))
          /\ \A n \in FailedOf("epic") \cup FailedOf("story") :
                Cardinality(ErrorsNaming(progress[n][2])) = 1
          /\ \A n \in 1..Len(calls) :
                ~calls[n].ok => \E m \in FailedOf("epic") \cup FailedOf("story") :
                                   progress[m][2] = calls[n].item
          /\ pc = "returned" => Len(progress) = Len(run.epics) + Len(run.stories)
          /\ (pc = "returned" /\ Cardinality(FailedOf("story")) = 1)
             => /\ result.stories_failed = 1
                /\ result.stories_created + result.stories_updated + result.stories_skipped
                      = Len(run.stories) - 1
    /\ (run.engine \in {"page", "db"} /\ pc = "raised") => progress = <<>>

\* the first of two stories failed in its remote creation, the second was
\* still processed
C8_Witness ==
    /\ DbRunEnded /\ Len(run.stories) = 2
    /\ FailedOf("story") = {Len(run.epics) + 1}
    /\ \E n \in 1..Len(calls) :
          /\ calls[n].op = "create_database_entry" /\ ~calls[n].ok
          /\ calls[n].item = run.stories[1].key
    /\ result.stories_failed = 1
    /\ result.stories_created = 1

\* C9: when every epic and story of a database sync run with force=false is
\* as an earlier real run synced it without failure (unchanged ledger entry
\* and file), the run reports every epic and every story as skipped and
\* issues no remote call and no store write.
C9_SecondDbSyncSkipsAll ==
    (DbRunEnded /\ ~run.force /\ AllSprintItemsFresh)
    => /\ result.epics_skipped = Len(run.epics)
       /\ result.stories_skipped = Len(run.stories)
       /\ result.epics_created + result.epics_updated + result.epics_failed = 0
       /\ result.stories_created + result.stories_updated + result.stories_failed = 0
       /\ calls = <<>>
       /\ dbTable = start.dbTable

C9_Witness ==
    /\ DbRunEnded /\ ~run.force /\ runs = 2
    /\ Len(run.epics) = 2 /\ Len(run.stories) = 2
    /\ AllSprintItemsFresh
    /\ result.epics_skipped = 2
    /\ result.stories_skipped = 2

\* C10: when the store holds a record for the project's key as
\* get_or_create_project is called, the call returns that record's remote id
\* with was_created=false, issues no remote call and writes nothing, whether
\* dry_run is set or not.
ProjectRecordAtStart == LocalProjectKey(config.project) \in DOMAIN start.dbTable

C10_CachedProjectReturned ==
    (run.engine = "project" /\ ProjectRecordAtStart)
    => /\ pc = "returned"
       /\ result.page_id = start.dbTable[LocalProjectKey(config.project)].notion_page_id
       /\ ~result.was_created
       /\ calls = <<>>
       /\ dbTable = start.dbTable
       /\ pageTable = start.pageTable
       /\ remote = start.remote

C10_Witness ==
    /\ run.engine = "project" /\ ProjectRecordAtStart
    /\ run.dry_run
    /\ pc = "returned"
    /\ result.page_id \in DOMAIN remote

\* the call under way is a get_or_create_project call
ProjectCall == run.engine = "project"

ProjectKey == LocalProjectKey(config.project)

\* the answers of the queries this call made
QueryAnswers ==
    {calls[n].props.results : n \in {m \in 1..Len(calls) : calls[m].op = "data_sources.query"
                                                           /\ calls[m].ok}}

\* this call created a project row
ProjectCreated == \E n \in 1..Len(calls) : calls[n].op = "pages.create" /\ calls[n].ok

\* C11: a get_or_create_project call with dry_run=true on a store without a
\* project record returns the dry-run placeholder id with was_created=true,
\* makes no remote call (no query, no create), writes nothing, and leaves the
\* store without a project record.
C11_DryRunProjectPlaceholder ==
    (ProjectCall /\ run.dry_run /\ ~ProjectRecordAtStart)
    => /\ pc = "returned"
       /\ result.page_id = DryRunProjectId(config.project)
       /\ result.page_id[1] = "dry-run-project"
       /\ result.was_created
       /\ calls = <<>>
       /\ remote = start.remote
       /\ dbTable = start.dbTable
       /\ pageTable = start.pageTable
       /\ ProjectKey \notin DOMAIN dbTable

C11_Witness ==
    /\ ProjectCall /\ run.dry_run /\ ~ProjectRecordAtStart
    /\ pc = "returned"
    /\ ProjectRows(World, config.database_sync.projects.database_id, config.project) # {}

\* C12: a get_or_create_project call with dry_run=false on a store without a
\* project record creates a row only when its lookup found none (no query of
\* the call answered with a row); when the query answers with a row, that row
\* is adopted with was_created=false and no create call is made; whenever the
\* call returns, a record of type project holds the returned id, and
\* was_created tells whether the call created a row.
C12_FindOrCreateProject ==
    (ProjectCall /\ ~run.dry_run /\ ~ProjectRecordAtStart)
    => /\ ProjectCreated => QueryAnswers \subseteq {NoId}
       /\ \A n \in 1..Len(calls) :
             (calls[n].op = "pages.create" /\ calls[n].ok)
             => /\ calls[n].id \notin DOMAIN start.remote
                /\ remote[calls[n].id].props = [name |-> config.project, key |-> config.project]
       /\ ~(QueryAnswers \subseteq {NoId})
          => /\ pc = "returned"
             /\ result.page_id \in QueryAnswers
             /\ result.page_id \in ProjectRows([remote |-> start.remote],
                                               config.database_sync.projects.database_id,
                                               config.project)
             /\ ~result.was_created
             /\ \A n \in 1..Len(calls) : calls[n].op # "pages.create"
             /\ remote = start.remote
       /\ pc = "returned"
          => /\ ProjectKey \in DOMAIN dbTable
             /\ dbTable[ProjectKey].entity_type = "project"
             /\ dbTable[ProjectKey].notion_page_id = result.page_id
             /\ result.page_id \in DOMAIN remote
             /\ result.was_created <=> ProjectCreated

\* both branches: a call that adopted a row
C12_Witness ==
    /\ ProjectCall /\ ~run.dry_run /\ ~ProjectRecordAtStart
    /\ pc = "returned"
    /\ ~result.was_created
    /\ result.page_id = ForeignId

\* a call that created the row
C12_WitnessCreated ==
    /\ ProjectCall /\ ~run.dry_run /\ ~ProjectRecordAtStart
    /\ pc = "returned"
    /\ result.was_created
    /\ QueryAnswers = {NoId}

\* the project rows this store's calls created
EngineProjectRows(rows) ==
    {id \in DOMAIN rows : rows[id].item = ProjectKey /\ id # ForeignId}

\* one step of the single project anchor: the store's calls create at most
\* one project row; a call that finds a project record returns that record's
\* id with was_created=false; a non-dry-run call that returns leaves a record
\* holding the id it returned; the id of a project record never changes
ProjectAnchorStep ==
    /\ Cardinality(EngineProjectRows(remote')) <= 1
    /\ (ProjectKey \in DOMAIN dbTable /\ runs' = runs + 1 /\ run'.engine = "project")
       => /\ pc' = "returned"
          /\ result'.page_id = dbTable[ProjectKey].notion_page_id
          /\ ~result'.was_created
    /\ (run'.engine = "project" /\ ~run'.dry_run /\ pc' = "returned")
       => /\ ProjectKey \in DOMAIN dbTable'
          /\ dbTable'[ProjectKey].notion_page_id = result'.page_id
    /\ ProjectKey \in DOMAIN dbTable
       => /\ ProjectKey \in DOMAIN dbTable'
          /\ dbTable'[ProjectKey].notion_page_id = dbTable[ProjectKey].notion_page_id

\* C13: there is a single project anchor: over any sequence of
\* get_or_create_project calls on one store, dry-run or not, at most one
\* project row is created, and once a non-dry-run call has returned, every
\* later call returns the same id with was_created=false.
C13_SingleProjectAnchor == [][ProjectAnchorStep]_vars

\* a second call, after a first one created the row
C13_Witness ==
    /\ ProjectCall /\ ProjectRecordAtStart
    /\ pc = "returned"
    /\ runs = 2
    /\ ~result.was_created
    /\ EngineProjectRows(remote) = {result.page_id}

\* C15: a page sync call with page sync enabled, no project_page_id argument
\* and no configured parent_page_id returns at once with failed=1, one error
\* telling that no parent page id is set, created=updated=skipped=0, no
\* document processed, no remote call and no store write.
C15_NoParentFailsOnce ==
    (run.engine = "page" /\ config.page_sync.enabled
        /\ run.project_page_id = NoId /\ config.page_sync.parent_page_id = NoId)
    => /\ pc = "returned"
       /\ result = SyncResult(0, 0, 0, 1, << <<"No parent page ID", None>> >>)
       /\ Len(result.errors) = 1
       /\ progress = <<>>
       /\ calls = <<>>
       /\ pageTable = start.pageTable
       /\ dbTable = start.dbTable
       /\ remote = start.remote

\* such a call, made while documents wait to be synced
C15_Witness ==
    /\ run.engine = "page" /\ config.page_sync.enabled
    /\ run.project_page_id = NoId /\ config.page_sync.parent_page_id = NoId
    /\ pc = "returned"
    /\ result.failed = 1
    /\ ScanDocuments(config, docFiles) # <<>>
    /\ pageTable = <<>>

\* the operations this run made for a document, in order
OpsOf(name) ==
    LET mine == SelectSeq(calls, LAMBDA c : c.item = name)
    IN [n \in 1..Len(mine) |-> mine[n].op]

\* document n of a real run with force=false has a record whose fingerprint
\* differs from the document's, and has been processed
ChangedSinceRecord(n) ==
    /\ run.engine = "page" /\ ~run.force /\ ~run.dry_run
    /\ n \in 1..Len(progress)
    /\ PathName(run.items[n].path) \in DOMAIN start.pageTable
    /\ start.pageTable[PathName(run.items[n].path)].content_hash # DocContentHash(run.items[n])

\* the record of document n holds the document's fingerprint and the remote
\* id it held before the run, and the page's body is the document's blocks
RewrittenInPlace(n) ==
    LET doc == run.items[n]
        name == PathName(doc.path)
        id == start.pageTable[name].notion_page_id
    IN /\ pageTable[name].content_hash = DocContentHash(doc)
       /\ pageTable[name].notion_page_id = id
       /\ pageTable[name].local_path = name
       /\ remote[id].body = [src |-> IF MarkdownToBlocks(doc.content) > 0 THEN doc.content
                                      ELSE NoContent,
                             n |-> MarkdownToBlocks(doc.content)]

\* C17 as stated: a document whose record holds a fingerprint other than its
\* own is reported updated by sync(force=false), with exactly one clear of the
\* page followed by one append, and the record with the new fingerprint and
\* the same remote id saved after both.
C17_Original ==
    \A n \in 1..Len(progress) :
        ChangedSinceRecord(n)
        => /\ progress[n][2] = "updated"
           /\ OpsOf(PathName(run.items[n].path))
                = <<"clear_page_content", "append_blocks_in_batches", "save_page_state">>
           /\ RewrittenInPlace(n)

\* C17 amended: when no remote call made for such a document fails, it is
\* reported updated, with exactly one clear followed by one append when the
\* new content has blocks (none otherwise), and the record with the new
\* fingerprint and the same remote id saved after them; when a call fails, it
\* is reported failed and no record is saved.
C17_ChangedDocRewritten ==
    \A n \in 1..Len(progress) :
        ChangedSinceRecord(n)
        => LET name == PathName(run.items[n].path)
           IN /\ ~RaisedFor(name)
                 => /\ progress[n][2] = "updated"
                    /\ OpsOf(name)
                         = IF MarkdownToBlocks(run.items[n].content) > 0
                           THEN <<"clear_page_content", "append_blocks_in_batches",
                                  "save_page_state">>
                           ELSE <<"clear_page_content", "save_page_state">>
                    /\ RewrittenInPlace(n)
              /\ RaisedFor(name)
                 => /\ progress[n][2] = "failed"
                    /\ \A k \in 1..Len(OpsOf(name)) : OpsOf(name)[k] # "save_page_state"
                    /\ pageTable[name] = start.pageTable[name]

\* a changed document with blocks, updated without failure
C17_Witness ==
    \E n \in 1..Len(progress) :
        /\ ChangedSinceRecord(n)
        /\ progress[n][2] = "updated"
        /\ MarkdownToBlocks(run.items[n].content) > PageBatch
        /\ start.remote[start.pageTable[PathName(run.items[n].path)].notion_page_id].body.n > 0

\* a changed document that is now empty: cleared, nothing appended
C17_WitnessEmpty ==
    \E n \in 1..Len(progress) :
        /\ ChangedSinceRecord(n)
        /\ progress[n][2] = "updated"
        /\ MarkdownToBlocks(run.items[n].content) = 0

\* every record of the table is still there after the step, with the remote
\* id and the key it had
KeepsRemoteIds(table, table2) ==
    \A k \in DOMAIN table :
        /\ k \in DOMAIN table2
        /\ table2[k].notion_page_id = table[k].notion_page_id

\* a step that processes an item that has a record adds no remote entity
UpdatesInPlace ==
    /\ (pc = "page" /\ run.i <= Len(run.items)
           /\ PathName(run.items[run.i].path) \in DOMAIN pageTable)
       => DOMAIN remote' = DOMAIN remote
    /\ (pc = "db" /\ run.i <= Len(run.epics) /\ run.epics[run.i].key \in DOMAIN dbTable)
       => DOMAIN remote' = DOMAIN remote
    /\ (pc = "db" /\ run.i > Len(run.epics) /\ run.j <= Len(run.stories)
           /\ run.stories[run.j].key \in DOMAIN dbTable)
       => DOMAIN remote' = DOMAIN remote

RemoteIdStep ==
    /\ KeepsRemoteIds(pageTable, pageTable')
    /\ KeepsRemoteIds(dbTable, dbTable')
    /\ \A k \in DOMAIN pageTable : pageTable'[k].local_path = pageTable[k].local_path
    /\ \A k \in DOMAIN dbTable : /\ dbTable'[k].local_key = dbTable[k].local_key
                                 /\ dbTable'[k].entity_type = dbTable[k].entity_type
    /\ \A id \in DOMAIN remote : /\ id \in DOMAIN remote'
                                 /\ remote'[id].kind = remote[id].kind
                                 /\ remote'[id].parent = remote[id].parent
    /\ UpdatesInPlace

\* C19: once a record exists for a document, an epic or a story, no step of
\* any later run, forced or not, successful or failed, changes the record's
\* remote id: the record stays, an update rewrites the remote entity the
\* record names without adding one, and only the record's fingerprint and
\* modification time change.
C19_RemoteIdNeverChanges == [][RemoteIdStep]_vars

\* a forced run: one synced item updated, another one failed
C19_Witness ==
    /\ PageRunEnded /\ run.force /\ ~run.dry_run
    /\ result.failed = 1 /\ result.updated = 1
    /\ \A n \in 1..Len(progress) :
          /\ progress[n][1] \in DOMAIN start.pageTable
          /\ progress[n][2] = "updated" => pageTable[progress[n][1]] # start.pageTable[progress[n][1]]
          /\ progress[n][2] = "failed" => RaisedFor(progress[n][1])

\* the table holds for key k what the table at the start of the run held
SameRecord(table, table0, k) ==
    IF k \in DOMAIN table0 THEN k \in DOMAIN table /\ table[k] = table0[k]
    ELSE k \notin DOMAIN table

NotSynced == {"failed", "skipped"}

\* document n was tallied failed because the append of its remaining blocks
\* raised after its page was created and its record saved
FailedAfterCreate(n) ==
    LET doc == run.items[n]
        name == PathName(doc.path)
    IN /\ progress[n][2] = "failed"
       /\ name \notin DOMAIN start.pageTable
       /\ MarkdownToBlocks(doc.content) > PageBatch
       /\ OpsOf(name) = <<"create_child_page", "save_page_state", "append_blocks_in_batches">>
       /\ \E k \in 1..Len(calls) :
             /\ calls[k].item = name /\ calls[k].op = "create_child_page" /\ calls[k].ok
             /\ name \in DOMAIN pageTable
             /\ pageTable[name] = NewPageState(name, calls[k].id, doc)
       /\ \E k \in 1..Len(calls) :
             calls[k].item = name /\ calls[k].op = "append_blocks_in_batches" /\ ~calls[k].ok

\* C20 as stated: an item tallied failed or skipped by a run has the record
\* it had when the run began, or still none.
C20_Original ==
    /\ run.engine = "page"
       => \A n \in 1..Len(progress) :
             progress[n][2] \in NotSynced
             => SameRecord(pageTable, start.pageTable, progress[n][1])
    /\ run.engine = "db"
       => \A n \in 1..Len(progress) :
             progress[n][3] \in NotSynced
             => SameRecord(dbTable, start.dbTable, progress[n][2])

\* C20 amended: the same, except for a document whose page was created and
\* whose append of the remaining blocks then failed: it is tallied failed
\* and keeps the record saved right after the creation.
C20_RecordsOnlyOnSuccess ==
    /\ run.engine = "page"
       => \A n \in 1..Len(progress) :
             progress[n][2] \in NotSynced
             => \/ SameRecord(pageTable, start.pageTable, progress[n][1])
                \/ FailedAfterCreate(n)
    /\ run.engine = "db"
       => \A n \in 1..Len(progress) :
             progress[n][3] \in NotSynced
             => SameRecord(dbTable, start.dbTable, progress[n][2])

\* a changed document whose update failed: its record is as it was
C20_Witness ==
    /\ run.engine = "page" /\ ~run.dry_run
    /\ \E n \in 1..Len(progress) :
          /\ progress[n][2] = "failed"
          /\ progress[n][1] \in DOMAIN start.pageTable
          /\ start.pageTable[progress[n][1]].content_hash # DocContentHash(run.items[n])
          /\ pageTable[progress[n][1]] = start.pageTable[progress[n][1]]

\* the excepted case
C20_WitnessKept ==
    /\ run.engine = "page"
    /\ \E n \in 1..Len(progress) : FailedAfterCreate(n)

\* a story whose creation failed after its row was created: no record
C20_WitnessStory ==
    /\ run.engine = "db"
    /\ \E n \in 1..Len(progress) :
          /\ progress[n][3] = "failed"
          /\ progress[n][2] \notin DOMAIN dbTable
          /\ \E k \in 1..Len(calls) : /\ calls[k].item = progress[n][2]
                                      /\ calls[k].op = "create_database_entry"
                                      /\ calls[k].ok

\* C14: when the table id for the epics or for the stories is not
\* configured, the value error raised where a real database sync needs the
\* id aborts the sync call: no run catches it and tallies it for an item.
C14_ConfigErrorAborts ==
    (run.engine = "db" /\ pc \in {"db", "returned"})
    => \A k \in 1..Len(result.errors) : result.errors[k][3] \notin ConfigErrors

\* C16: when the status ledger file is absent, an enabled database sync
\* raises the ledger-not-found error before any remote call or store write,
\* while page sync over the same project never raises, processes every
\* document it scanned and tallies a document failed only when a remote call
\* made for it raised.
C16_MissingLedgerStopsDbSyncOnly ==
    /\ (run.engine = "db" /\ config.database_sync.enabled /\ ledger = NoLedger)
       => /\ pc = "raised"
          /\ result = [raised |-> "SprintStatusNotFoundError"]
          /\ calls = <<>>
          /\ progress = <<>>
          /\ pageTable = start.pageTable
          /\ dbTable = start.dbTable
          /\ remote = start.remote
    /\ (run.engine = "page" /\ config.page_sync.enabled /\ ledger = NoLedger)
       => /\ pc # "raised"
          /\ (pc = "returned" /\ result.errors = <<>>)
             => /\ run.items # <<>>
                /\ Len(progress) = Len(run.items)
                /\ result.created + result.updated + result.skipped = Len(run.items)
          /\ \A n \in 1..Len(progress) :
                /\ progress[n][1] = PathName(run.items[n].path)
                /\ progress[n][2] = "failed" => RaisedFor(progress[n][1])
                /\ (progress[n][2] \in {"created", "updated"} /\ ~run.dry_run)
                   => /\ progress[n][1] \in DOMAIN pageTable
                      /\ pageTable[progress[n][1]].content_hash = DocContentHash(run.items[n])

\* the database sync raised in a session whose page sync had synced every
\* document of the project
C16_Witness ==
    /\ run.engine = "db" /\ config.database_sync.enabled /\ ledger = NoLedger
    /\ pc = "raised"
    /\ Cardinality(DOMAIN pageTable) = Len(ScanDocuments(config, docFiles))
    /\ Len(ScanDocuments(config, docFiles)) = MaxDocs

\* the record the engine looks up for document n of the run
RecordOf(n) == GetPageState(pageTable, PathName(run.items[n].path))

\* C18: the page records are one per local document, keyed by the
\* document's relative path: two documents of a real run with distinct
\* relative paths, both created or updated, have two records, and these name
\* two remote pages.
C18_OneRecordPerDocument ==
    (run.engine = "page" /\ ~run.dry_run)
    => \A i, j \in 1..Len(progress) :
          (/\ i # j
           /\ run.items[i].path # run.items[j].path
           /\ progress[i][2] \in {"created", "updated"}
           /\ progress[j][2] \in {"created", "updated"})
          => /\ RecordOf(i) # NoPageState
             /\ RecordOf(j) # NoPageState
             /\ RecordOf(i) # RecordOf(j)
             /\ RecordOf(i).notion_page_id # RecordOf(j).notion_page_id
             /\ Cardinality(DOMAIN pageTable) >= 2

\* when the run began, document n had a record with the document's
\* fingerprint and a remote page holding fewer blocks than the document has
IncompleteAtStart(n) ==
    LET doc == run.items[n]
        name == PathName(doc.path)
    IN /\ name \in DOMAIN start.pageTable
       /\ start.pageTable[name].content_hash = DocContentHash(doc)
       /\ start.pageTable[name].notion_page_id \in DOMAIN start.remote
       /\ start.remote[start.pageTable[name].notion_page_id].body.n
            < MarkdownToBlocks(doc.content)

\* C21: a document whose page was created and recorded but whose remaining
\* blocks were never appended is skipped by a later run with force=false and
\* unchanged content: no call is made for it, its record stays, and its
\* remote body stays incomplete.
C21_IncompletePageSkipped ==
    (run.engine = "page" /\ ~run.force)
    => \A n \in 1..Len(progress) :
          IncompleteAtStart(n)
          => LET name == PathName(run.items[n].path)
                 id == start.pageTable[name].notion_page_id
             IN /\ progress[n][2] = "skipped"
                /\ OpsOf(name) = <<>>
                /\ pageTable[name] = start.pageTable[name]
                /\ remote[id].body = start.remote[id].body
                /\ remote[id].body.n < MarkdownToBlocks(run.items[n].content)

\* the page was left with its first batch only by a failed append after its
\* creation, and no run synced the document since
C21_Witness ==
    /\ PageRunEnded /\ ~run.force /\ ~run.dry_run
    /\ \E n \in 1..Len(progress) :
          /\ IncompleteAtStart(n)
          /\ start.lastOk[run.items[n].path] = NoContent
          /\ start.remote[start.pageTable[PathName(run.items[n].path)].notion_page_id].body
               = [src |-> run.items[n].content, n |-> PageBatch]
          /\ progress[n][2] = "skipped"

\* a database sync run past its scan
DbRunning == run.engine = "db" /\ pc \in {"db", "returned"}

\* what the scanner reads from the ledger and the files now
Scanned == ScanSprintStatus(ledger, epicFiles, storyFiles)

\* the keys of the items of a kind the run has processed so far
Processed(kind) ==
    {progress[n][2] : n \in {m \in 1..Len(progress) : progress[m][1] = kind}}

ProcessedCount(kind) == Cardinality({m \in 1..Len(progress) : progress[m][1] = kind})

C22_WitnessEpic ==
    /\ DbRunning /\ pc = "returned"
    /\ run.filter_key = <<"epic", "1">>
    /\ Processed("epic") = {<<"epic", "1">>}
    /\ Len(progress) = 1

\* a story filter naming no story of the ledger: every epic, no story
C22_WitnessUnknown ==
    /\ DbRunning /\ pc = "returned"
    /\ run.filter_key = <<"9", "9", "z">>
    /\ ProcessedCount("epic") = 2
    /\ Processed("story") = {}

\* the record an item had when the run began
RecordAtStart(key) == GetDbState(start.dbTable, key)

\* C23: an epic is pushed (created, updated, or failed in the attempt) iff
\* force is set, or it has no record, or it has a modification time that
\* differs from the record's; otherwise it is skipped, with no remote call
\* and no record write.  No content hash takes part: epic records hold none.
C23_EpicPushedOnMtime ==
    DbRunning
    => \A n \in 1..Len(progress) :
          progress[n][1] = "epic"
          => LET epic == run.epics[progress[n][4]]
                 state == RecordAtStart(epic.key)
             IN /\ progress[n][2] = epic.key
                /\ progress[n][3] # "skipped"
                   <=> \/ run.force
                       \/ state = NoDbState
                       \/ (epic.mtime # NoMtime /\ state.last_synced_mtime # epic.mtime)
                /\ progress[n][3] = "skipped"
                   => /\ OpsOf(epic.key) = <<>>
                      /\ SameRecord(dbTable, start.dbTable, epic.key)
                /\ epic.key \in DOMAIN dbTable => dbTable[epic.key].content_hash = NoHash

\* an epic file touched since the last sync, title and status as synced:
\* the epic is updated by a run without force
C23_Witness ==
    /\ DbRunning /\ ~run.force /\ ~run.dry_run
    /\ \E n \in 1..Len(progress) :
          /\ progress[n][1] = "epic"
          /\ progress[n][3] = "updated"
          /\ LET epic == run.epics[progress[n][4]]
                 last == start.lastOk[epic.key]
             IN /\ last # NeverSynced
                /\ last.title = epic.title /\ last.status = epic.status
                /\ last.mtime # epic.mtime

\* an epic without a file, recorded: skipped without force
C23_WitnessSkipped ==
    /\ DbRunning /\ ~run.force
    /\ \E n \in 1..Len(progress) :
          /\ progress[n][1] = "epic"
          /\ progress[n][3] = "skipped"
          /\ run.epics[progress[n][4]].mtime = NoMtime

\* C24: a story is pushed iff force is set, or it has no record, or it has
\* content and its fingerprint differs from the record's, or it has no
\* content but a modification time that differs from the record's; so a
\* recorded story without a backing file is pushed only under force.
C24_StoryPushedOnHash ==
    DbRunning
    => \A n \in 1..Len(progress) :
          progress[n][1] = "story"
          => LET story == run.stories[progress[n][4]]
                 state == RecordAtStart(story.key)
             IN /\ progress[n][2] = story.key
                /\ progress[n][3] # "skipped"
                   <=> \/ run.force
                       \/ state = NoDbState
                       \/ /\ story.content # NoContent
                          /\ state.content_hash # Md5(story.content)
                       \/ /\ story.content = NoContent
                          /\ story.mtime # NoMtime
                          /\ state.last_synced_mtime # story.mtime
                /\ progress[n][3] = "skipped"
                   => /\ OpsOf(story.key) = <<>>
                      /\ SameRecord(dbTable, start.dbTable, story.key)
                /\ (state # NoDbState /\ ~story.has_file /\ progress[n][3] # "skipped")
                   => run.force

\* a recorded story without a backing file, pushed by a forced run
C24_Witness ==
    /\ DbRunning /\ run.force /\ ~run.dry_run
    /\ \E n \in 1..Len(progress) :
          /\ progress[n][1] = "story"
          /\ progress[n][3] = "updated"
          /\ ~run.stories[progress[n][4]].has_file
          /\ RecordAtStart(progress[n][2]) # NoDbState

\* a story whose file was rewritten with the same content: skipped
C24_WitnessTouched ==
    /\ DbRunning /\ ~run.force
    /\ \E n \in 1..Len(progress) :
          /\ progress[n][1] = "story"
          /\ progress[n][3] = "skipped"
          /\ run.stories[progress[n][4]].has_file
          /\ RecordAtStart(progress[n][2]).last_synced_mtime
               # run.stories[progress[n][4]].mtime

\* a story whose content changed: pushed without force
C24_WitnessChanged ==
    /\ DbRunning /\ ~run.force /\ ~run.dry_run
    /\ \E n \in 1..Len(progress) :
          /\ progress[n][1] = "story"
          /\ progress[n][3] = "updated"

\* the epic entries of the progress log for a key that did not fail
ResolvedEpics(epic_key) ==
    {n \in 1..Len(progress) : /\ progress[n][1] = "epic"
                              /\ progress[n][2] = epic_key
                              /\ progress[n][3] # "failed"}

\* the row calls of the run made for stories
StoryRowCalls ==
    {n \in 1..Len(calls) : /\ calls[n].op \in {"create_database_entry", "update_database_entry"}
                           /\ ~IsEpicKey(calls[n].item)}

\* C25: in a real run a story whose parent epic key resolves to no remote id
\* (no epic with that key was processed, or it failed) gets its row call
\* without the epic relation and is not tallied failed for that; the row
\* call carries the project relation exactly when a project id was supplied.
C25_UnresolvedEpicOmitsRelation ==
    (DbRunning /\ ~run.dry_run)
    => /\ \A n \in StoryRowCalls :
             LET story == StoryOf(calls[n].item)
             IN /\ calls[n].ok
                   => /\ (calls[n].props.Sprint = NoId) <=> (ResolvedEpics(story.epic_key) = {})
                      /\ calls[n].props.Project = run.project
                      /\ remote[calls[n].id].props.Sprint = calls[n].props.Sprint
                      /\ remote[calls[n].id].props.Project = run.project
       /\ \A n \in 1..Len(progress) :
             (progress[n][1] = "story" /\ progress[n][3] = "failed")
             => (RaisedFor(progress[n][2]) \/ NotConfigured(progress[n][2]))
       /\ \A n \in 1..Len(progress) :
             (/\ progress[n][1] = "story"
              /\ ResolvedEpics(run.stories[progress[n][4]].epic_key) = {}
              /\ ~RaisedFor(progress[n][2]) /\ ~NotConfigured(progress[n][2]))
             => /\ progress[n][3] \in {"created", "updated", "skipped"}
                /\ progress[n][3] = "skipped"
                   <=> ~NeedsSyncStory(run.force, RecordAtStart(progress[n][2]),
                                       run.stories[progress[n][4]])

\* a story whose parent epic is not in the ledger: created without the epic
\* relation, with the project relation
C25_Witness ==
    /\ DbRunning /\ ~run.dry_run /\ pc = "returned"
    /\ run.project # NoId
    /\ result.stories_failed = 0
    /\ \E n \in StoryRowCalls :
          /\ calls[n].ok /\ calls[n].op = "create_database_entry"
          /\ StoryOf(calls[n].item).epic_key = <<"epic", "3">>
          /\ \A e \in 1..Len(run.epics) : run.epics[e].key # <<"epic", "3">>
          /\ calls[n].props.Sprint = NoId
          /\ calls[n].props.Project = run.project

\* a story whose parent epic failed in the epic phase
C25_WitnessFailedEpic ==
    /\ DbRunning /\ ~run.dry_run
    /\ \E n \in StoryRowCalls :
          /\ calls[n].ok
          /\ calls[n].props.Sprint = NoId
          /\ \E e \in 1..Len(progress) : /\ progress[e][1] = "epic"
                                         /\ progress[e][2] = StoryOf(calls[n].item).epic_key
                                         /\ progress[e][3] = "failed"

\* a table holds no two rows with the same primary key
UniqueKey(rows, pk) == \A r1, r2 \in rows : r1[pk] = r2[pk] => r1 = r2

StoreReturned(op) == pc = "returned" /\ run.engine = "store" /\ run.op = op

\* the rows of a table stored under a key
RowsOf(rows, pk, key) == {r \in rows : r[pk] = key}

\* C26: whatever upserts, deletes and page sync runs were made, each table
\* of sync.db holds at most one row per key, and after an upsert the key's
\* row is the record that was passed, null columns included.
C26_OneRecordPerKeyFullReplace ==
    /\ UniqueKey(sync_db.page_sync_state, "local_path")
    /\ UniqueKey(sync_db.db_sync_state, "local_key")
    /\ StoreReturned("save_page_state")
       => RowsOf(sync_db.page_sync_state, "local_path", run.arg.local_path) = {run.arg}
    /\ StoreReturned("save_db_state")
       => RowsOf(sync_db.db_sync_state, "local_key", run.arg.local_key) = {run.arg}
    /\ (run.engine = "page" /\ ~run.dry_run)
       => \A n \in 1..Len(calls) :
             calls[n].op = "save_page_state"
             => \E r \in sync_db.page_sync_state :
                   /\ r.local_path = calls[n].item
                   /\ r.notion_page_id = calls[n].id

\* a story record with a fingerprint is replaced by one without
C26_Witness ==
    /\ StoreReturned("save_db_state")
    /\ run.arg.content_hash = NoHash
    /\ run.arg.last_synced_mtime = NoMtime
    /\ \E r \in start.sync_db.db_sync_state :
          /\ r.local_key = run.arg.local_key
          /\ r.content_hash # NoHash
          /\ r.last_synced_mtime # NoMtime

\* a sync run replaces a record that a direct call had written
C26_WitnessSyncRun ==
    /\ PageRunEnded /\ ~run.dry_run
    /\ \E r \in start.sync_db.page_sync_state, r2 \in sync_db.page_sync_state :
          /\ r.local_path = r2.local_path
          /\ r.content_hash = Md5(0)
          /\ r2.content_hash # Md5(0)

\* the records of a kind in the key-indexed table
RecordsOfType(table, entity_type) ==
    {table[k] : k \in {k2 \in DOMAIN table : table[k2].entity_type = entity_type}}

\* C27: the rows of sync.db are the key-to-record map of the upserts and
\* deletes made: a lookup returns the key's last upserted record or
\* not-found, list-by-kind returns the records of that kind, and opening the
\* store again leaves the rows as they were.
C27_StoreIsKeyToRecordMap ==
    /\ \A p \in StorePaths \cup DOMAIN pageTable :
          FetchOne(sync_db.page_sync_state, "local_path", p, NoPageState)
             = GetPageState(pageTable, p)
    /\ \A k \in StoreKeys \cup DOMAIN dbTable :
          FetchOne(sync_db.db_sync_state, "local_key", k, NoDbState) = GetDbState(dbTable, k)
    /\ Cardinality(sync_db.page_sync_state) = Cardinality(DOMAIN pageTable)
    /\ Cardinality(sync_db.db_sync_state) = Cardinality(DOMAIN dbTable)
    /\ StoreReturned("get_page_state") => result = GetPageState(pageTable, run.arg)
    /\ StoreReturned("get_db_state") => result = GetDbState(dbTable, run.arg)
    /\ StoreReturned("get_db_states_by_type") => result = RecordsOfType(dbTable, run.arg)
    /\ StoreReturned("delete_page_state") => run.arg \notin DOMAIN pageTable
    /\ StoreReturned("delete_db_state") => run.arg \notin DOMAIN dbTable
    /\ (StoreReturned("Store") /\ start.sync_db.exists) => sync_db = start.sync_db

\* the store is opened again on a file that holds records of both tables
C27_Witness ==
    /\ StoreReturned("Store")
    /\ start.sync_db.page_sync_state # {}
    /\ start.sync_db.db_sync_state # {}
    /\ sync_db = start.sync_db

\* a lookup of a deleted key answers not-found
C27_WitnessDeleted ==
    /\ StoreReturned("get_db_state")
    /\ result = NoDbState
    /\ sync_db.db_sync_state # {}

\* list-by-kind answers one record while the table holds two kinds
C27_WitnessByType ==
    /\ StoreReturned("get_db_states_by_type")
    /\ Cardinality(result) = 1
    /\ Cardinality(sync_db.db_sync_state) = 2

\* a lookup answers the record a page sync run wrote
C27_WitnessLookup ==
    /\ StoreReturned("get_page_state")
    /\ result # NoPageState
    /\ result.content_hash # Md5(0)

\* the documents, epics and stories the scanners find now
ScannedNames ==
    LET docs == ScanDocuments(config, docFiles)
    IN {PathName(docs[n].path) : n \in 1..Len(docs)}

ScannedKeys ==
    IF SprintStatusMissing(ledger) THEN {}
    ELSE {Scanned.epics[n].key : n \in 1..Len(Scanned.epics)}
         \cup {Scanned.stories[n].key : n \in 1..Len(Scanned.stories)}

RowKeys(rows, pk) == {r[pk] : r \in rows}

\* the record and the remote entity it names are what they were when the
\* run began
Untouched(table, table0, k) ==
    /\ k \in DOMAIN table
    /\ table[k] = table0[k]
    /\ table0[k].notion_page_id \in DOMAIN start.remote
       => /\ table0[k].notion_page_id \in DOMAIN remote
          /\ remote[table0[k].notion_page_id] = start.remote[table0[k].notion_page_id]

\* C28: from the start of a page or database sync run to any point of it, no
\* record and no remote entity is removed (the key sets of both tables, of
\* their rows and of the remote store only grow), and every record whose
\* document, epic or story is not in the run's scan is left as it was,
\* together with the remote entity it names.
C28_SyncNeverDeletes ==
    (run.engine \in {"page", "db"})
    => /\ DOMAIN start.pageTable \subseteq DOMAIN pageTable
       /\ DOMAIN start.dbTable \subseteq DOMAIN dbTable
       /\ RowKeys(start.sync_db.page_sync_state, "local_path")
             \subseteq RowKeys(sync_db.page_sync_state, "local_path")
       /\ RowKeys(start.sync_db.db_sync_state, "local_key")
             \subseteq RowKeys(sync_db.db_sync_state, "local_key")
       /\ DOMAIN start.remote \subseteq DOMAIN remote
       /\ \A k \in DOMAIN start.pageTable :
             (run.engine = "db" \/ k \notin ScannedNames)
             => /\ Untouched(pageTable, start.pageTable, k)
                /\ start.pageTable[k] \in sync_db.page_sync_state
       /\ \A k \in DOMAIN start.dbTable :
             (run.engine = "page" \/ k \notin ScannedKeys)
             => /\ Untouched(dbTable, start.dbTable, k)
                /\ start.dbTable[k] \in sync_db.db_sync_state

\* a forced database run rewrote the epic and the story of the ledger; the
\* records of the epic and the story that left the ledger are kept
C28_Witness ==
    /\ pc = "returned" /\ run.engine = "db" /\ ~run.dry_run /\ run.force
    /\ result.epics_updated = 1 /\ result.stories_updated = 1
    /\ {<<"epic", "2">>, <<"2", "1", "y">>} \subseteq DOMAIN dbTable \ ScannedKeys
    /\ dbTable # start.dbTable

\* a page run created the page of the one document left; the record of the
\* deleted document is kept
C28_WitnessPage ==
    /\ PageRunEnded /\ ~run.dry_run
    /\ result.created = 1
    /\ PathName(DocConfigs[2].path) \in DOMAIN pageTable \ ScannedNames
    /\ pageTable # start.pageTable

ScanReturned == pc = "returned" /\ run.engine = "scan"

\* the ledger's entries by what their keys look like
EndsRetrospective(n) ==
    Len(ledger[n].key) >= 2 /\ ledger[n].key[Len(ledger[n].key)] = "retrospective"

EpicEntry(n) == ~EndsRetrospective(n) /\ Len(ledger[n].key) >= 2 /\ ledger[n].key[1] = "epic"

StoryEntry(n) == ~EndsRetrospective(n) /\ ~EpicEntry(n)

\* the position in the scan's story list of the story at ledger position n
StoryIndex(n) == Cardinality({m \in 1..n : StoryEntry(m)})

EpicIndex(n) == Cardinality({m \in 1..n : EpicEntry(m)})

\* the epic entries before ledger position n
EpicsBefore(n) == {e \in 1..(n - 1) : EpicEntry(e)}

\* C29: the scan gives each story the key of the last epic entry before it
\* in the ledger as its parent; a story before every epic entry whose key
\* starts with a number gets the epic key made of that number.
C29_StoryParentIsLastEpic ==
    ScanReturned
    => \A n \in 1..Len(ledger) :
          StoryEntry(n)
          => LET story == result.stories[StoryIndex(n)]
                 before == EpicsBefore(n)
             IN /\ story.key = ledger[n].key
                /\ before # {}
                   => story.epic_key
                        = ledger[CHOOSE e \in before : \A e2 \in before : e2 <= e].key
                /\ (before = {} /\ ledger[n].key[1] \in Digits /\ Len(ledger[n].key) >= 2)
                   => story.epic_key = <<"epic", ledger[n].key[1]>>

\* a story before every epic with its parent inferred, and a story after an
\* epic
C29_Witness ==
    /\ ScanReturned
    /\ Len(ledger) = 3
    /\ StoryEntry(1) /\ EpicEntry(2) /\ StoryEntry(3)
    /\ result.stories[1].epic_key = <<"epic", "3">>
    /\ result.stories[2].epic_key = ledger[2].key

\* the second of two epics is the parent
C29_WitnessSecondEpic ==
    /\ ScanReturned
    /\ Len(ledger) = 3
    /\ EpicEntry(1) /\ EpicEntry(2) /\ StoryEntry(3)
    /\ result.stories[1].epic_key = ledger[2].key

\* a story before every epic whose key starts with no number
C29_WitnessUnknown ==
    /\ ScanReturned
    /\ Len(ledger) >= 1 /\ StoryEntry(1) /\ ledger[1].key[1] \notin Digits
    /\ result.stories[1].epic_key = <<"epic", "unknown">>

\* C30: the scan turns every ledger entry into exactly one thing, keeping
\* the ledger's order: an entry whose key ends in the retrospective suffix
\* into nothing, the current epic staying what it was; another entry whose
\* key starts with the epic prefix into an epic; any other entry into a
\* story.  A story without a backing file has no content, no file path and
\* no fingerprint.
C30_EntriesClassifiedInOrder ==
    ScanReturned
    => /\ Len(result.epics) = Cardinality({n \in 1..Len(ledger) : EpicEntry(n)})
       /\ Len(result.stories) = Cardinality({n \in 1..Len(ledger) : StoryEntry(n)})
       /\ \A n \in 1..Len(ledger) :
             /\ EpicEntry(n) => /\ result.epics[EpicIndex(n)].key = ledger[n].key
                                /\ result.epics[EpicIndex(n)].status = ledger[n].status
             /\ StoryEntry(n) => /\ result.stories[StoryIndex(n)].key = ledger[n].key
                                 /\ result.stories[StoryIndex(n)].status = ledger[n].status
             /\ EndsRetrospective(n)
                => /\ \A e \in 1..Len(result.epics) : result.epics[e].key # ledger[n].key
                   /\ \A m \in 1..Len(result.stories) :
                         /\ result.stories[m].key # ledger[n].key
                         /\ result.stories[m].epic_key # ledger[n].key
       /\ \A m \in 1..Len(result.stories) :
             FileOf(storyFiles, result.stories[m].key) = NoFile
             => /\ result.stories[m].content = NoContent
                /\ ~result.stories[m].has_file
                /\ StoryContentHash(result.stories[m]) = NoHash

\* an epic, its retrospective entry, then a story without a file: one epic,
\* one story whose parent is the epic
C30_Witness ==
    /\ ScanReturned
    /\ Len(ledger) = 3
    /\ EpicEntry(1) /\ EndsRetrospective(2) /\ StoryEntry(3)
    /\ Len(result.epics) = 1 /\ Len(result.stories) = 1
    /\ result.stories[1].epic_key = ledger[1].key
    /\ result.stories[1].content = NoContent /\ ~result.stories[1].has_file

\* a story with a backing file has content and a fingerprint
C30_WitnessFile ==
    /\ ScanReturned
    /\ \E m \in 1..Len(result.stories) :
          /\ result.stories[m].has_file
          /\ result.stories[m].content # NoContent
          /\ StoryContentHash(result.stories[m]) # NoHash

\* the epic entries of the progress log for a key with a given action
EpicEntries(epic_key, action) ==
    {n \in 1..Len(progress) : /\ progress[n][1] = "epic"
                              /\ progress[n][2] = epic_key
                              /\ progress[n][3] = action}

\* C32: in a real run, a story pushed after its epic was skipped in the epic
\* phase carries, as its epic relation, the remote id of the record the epic
\* had when the run began.
C32_SkippedEpicIdFromRecord ==
    (DbRunning /\ ~run.dry_run)
    => \A n \in StoryRowCalls :
          LET epic_key == StoryOf(calls[n].item).epic_key
          IN (calls[n].ok /\ EpicEntries(epic_key, "skipped") # {})
             => /\ epic_key \in DOMAIN start.dbTable
                /\ calls[n].props.Sprint = start.dbTable[epic_key].notion_page_id
                /\ calls[n].props.Sprint \in DOMAIN remote
                /\ remote[calls[n].id].props.Sprint = start.dbTable[epic_key].notion_page_id

\* the epic is skipped and its story, whose file changed, is updated
C32_Witness ==
    /\ DbRunning /\ ~run.dry_run /\ ~run.force
    /\ \E n \in StoryRowCalls :
          /\ calls[n].ok /\ calls[n].op = "update_database_entry"
          /\ EpicEntries(StoryOf(calls[n].item).epic_key, "skipped") # {}
          /\ calls[n].props.Sprint = start.dbTable[StoryOf(calls[n].item).epic_key].notion_page_id

\* the statement of C33 as written: whenever the parent epic has a record
\* at the moment a story is pushed, the story carries the record's id
C33_Original ==
    (DbRunning /\ ~run.dry_run)
    => \A n \in StoryRowCalls :
          LET epic_key == StoryOf(calls[n].item).epic_key
          IN (calls[n].ok /\ epic_key \in DOMAIN dbTable)
             => calls[n].props.Sprint = dbTable[epic_key].notion_page_id

\* C33: whenever a story is created or updated in a real run, its parent
\* epic has a record at that moment and the epic was created, updated or
\* skipped in the epic phase of the same run, the properties pushed for the
\* story include the relation to that record's remote id.
C33_StoryRelatesToRecordedEpic ==
    (DbRunning /\ ~run.dry_run)
    => \A n \in StoryRowCalls :
          LET epic_key == StoryOf(calls[n].item).epic_key
          IN (calls[n].ok /\ epic_key \in DOMAIN dbTable /\ ResolvedEpics(epic_key) # {})
             => /\ dbTable[epic_key].notion_page_id # NoId
                /\ calls[n].props.Sprint = dbTable[epic_key].notion_page_id

\* the epic is updated and its story created with the relation
C33_Witness ==
    /\ DbRunning /\ ~run.dry_run
    /\ \E n \in StoryRowCalls :
          LET epic_key == StoryOf(calls[n].item).epic_key
          IN /\ calls[n].ok
             /\ EpicEntries(epic_key, "updated") # {}
             /\ epic_key \in DOMAIN dbTable
             /\ calls[n].props.Sprint = dbTable[epic_key].notion_page_id

\* the epic's update raised: it keeps its record, and the story is pushed
\* without the relation
C33_WitnessFailedEpic ==
    /\ DbRunning /\ ~run.dry_run
    /\ \E n \in StoryRowCalls :
          LET epic_key == StoryOf(calls[n].item).epic_key
          IN /\ calls[n].ok
             /\ EpicEntries(epic_key, "failed") # {}
             /\ epic_key \in DOMAIN dbTable
             /\ calls[n].props.Sprint = NoId

\* the remote rows created for an epic or story key
RowsOfKey(key) == {id \in DOMAIN remote : remote[id].kind = "row" /\ remote[id].item = key}

\* C34: whatever database sync runs were made on the store and whichever
\* remote calls failed in them, the remote store holds at most one row for
\* each epic key and for each story key.
C34_OneRowPerKey ==
    \A key \in DOMAIN lastOk :
        (key \in EpicKeys \cup StoryKeys \cup {OrphanLedger[1].key})
        => Cardinality(RowsOfKey(key)) <= 1

\* the documents or stories of the current run whose update in the call just
\* before it raised after their remote body had been cleared; no file was
\* written between the two calls
LeftCleared ==
    IF run.engine = "page" /\ start.unfinished.engine = "page"
    THEN {n \in 1..Len(progress) : progress[n][1] \in start.unfinished.items}
    ELSE IF run.engine = "db" /\ start.unfinished.engine = "db"
    THEN {n \in 1..Len(progress) : progress[n][2] \in start.unfinished.items}
    ELSE {}

\* the action reported for the n-th item of the run
ActionOf(n) == IF run.engine = "page" THEN progress[n][2] ELSE progress[n][3]

\* C35 as stated: an existing page or story whose update failed after its
\* remote body was cleared is not skipped by the next force=false run with
\* the same local content.
C35_Original ==
    (run.engine \in {"page", "db"} /\ ~run.force)
    => \A n \in LeftCleared : ActionOf(n) # "skipped"

\* C35: an existing page or story whose update in a force=false run failed
\* after its remote body was cleared is not skipped by the next force=false
\* run with the same local content: the update is attempted again.
C35_FailedUpdateIsRetried ==
    (run.engine \in {"page", "db"} /\ ~run.force /\ ~start.unfinished.force)
    => \A n \in LeftCleared :
          /\ ActionOf(n) \in {"updated", "failed"}
          /\ ~run.dry_run =>
                \E k \in 1..Len(calls) :
                   /\ calls[k].item = (IF run.engine = "page" THEN progress[n][1]
                                       ELSE progress[n][2])
                   /\ calls[k].op \in {"clear_page_content", "update_database_entry"}

C35_Witness ==
    /\ PageRunEnded /\ ~run.force /\ ~run.dry_run /\ ~start.unfinished.force
    /\ \E n \in LeftCleared : ActionOf(n) = "updated"

C35_WitnessStory ==
    /\ DbRunEnded /\ ~run.force /\ ~run.dry_run /\ ~start.unfinished.force
    /\ \E n \in LeftCleared : ActionOf(n) = "updated"

\* the remote calls of an update of an existing item
UpdateCallOps == {"update_database_entry", "clear_page_content", "append_blocks",
              "append_blocks_in_batches"}

\* the calls of the run that raised while an item that had a record when the
\* run began was being updated
FailedUpdateCalls(table0) ==
    {n \in 1..Len(calls) : /\ ~calls[n].ok
                           /\ calls[n].op \in UpdateCallOps
                           /\ calls[n].item \in DOMAIN table0}

\* C36: when a remote call (property update, body clear or body append)
\* raises while an existing page, epic or story is updated, the item's
\* record, in the store's table and in the engine's view of it, is exactly
\* the record it had before the run.
C36_FailedUpdateKeepsRecord ==
    /\ run.engine = "page"
       => \A n \in FailedUpdateCalls(start.pageTable) :
             /\ SameRecord(pageTable, start.pageTable, calls[n].item)
             /\ {r \in sync_db.page_sync_state : r.local_path = calls[n].item}
                   = {start.pageTable[calls[n].item]}
    /\ run.engine = "db"
       => \A n \in FailedUpdateCalls(start.dbTable) :
             /\ SameRecord(dbTable, start.dbTable, calls[n].item)
             /\ {r \in sync_db.db_sync_state : r.local_key = calls[n].item}
                   = {start.dbTable[calls[n].item]}

\* an epic whose file changed since its record was written, whose property
\* update raised: the record keeps the old modification time
C36_Witness ==
    /\ run.engine = "db" /\ pc = "returned"
    /\ \E n \in FailedUpdateCalls(start.dbTable) :
          /\ calls[n].op = "update_database_entry"
          /\ calls[n].item \in EpicKeys
          /\ \E i \in 1..Len(run.epics) :
                /\ run.epics[i].key = calls[n].item
                /\ run.epics[i].mtime # dbTable[calls[n].item].last_synced_mtime

\* a changed document whose body append raised after the clear
C36_WitnessPage ==
    /\ run.engine = "page" /\ pc = "returned"
    /\ \E n \in FailedUpdateCalls(start.pageTable) :
          /\ calls[n].op = "append_blocks_in_batches"
          /\ \E i \in 1..Len(run.items) :
                /\ PathName(run.items[i].path) = calls[n].item
                /\ DocContentHash(run.items[i]) # pageTable[calls[n].item].content_hash

\* a changed story whose body clear raised
C36_WitnessStory ==
    /\ run.engine = "db" /\ pc = "returned"
    /\ \E n \in FailedUpdateCalls(start.dbTable) :
          /\ calls[n].op = "clear_page_content"
          /\ \E j \in 1..Len(run.stories) :
                /\ run.stories[j].key = calls[n].item
                /\ StoryContentHash(run.stories[j]) # dbTable[calls[n].item].content_hash

\* item a is item b with another ledger status: same key, same file state
OnlyStatusDiffers(a, b) ==
    /\ b # NeverSynced
    /\ a.status # b.status
    /\ [a EXCEPT !.status = b.status] = b

\* the remote calls and store writes logged for an item
CallsFor(key) == {k \in 1..Len(calls) : calls[k].item = key}

\* the item is reported skipped, nothing was called for it, and its remote
\* row and its record are as they were when the run began
SkippedUntouched(key, action) ==
    /\ action = "skipped"
    /\ CallsFor(key) = {}
    /\ SameRecord(dbTable, start.dbTable, key)
    /\ remote[dbTable[key].notion_page_id] = start.remote[dbTable[key].notion_page_id]

\* C37: when an epic or story was synced by a real run and since then only
\* its status in the ledger changed (its file has the same modification
\* time and content), a run with force=false reports it skipped and makes
\* no call for it: its remote row keeps the status pushed before.
C37_StatusChangeAloneIsSkipped ==
    (run.engine = "db" /\ ~run.force)
    => /\ \A n \in 1..Len(progress) :
             LET key == progress[n][2]
                 item == IF progress[n][1] = "epic" THEN run.epics[progress[n][4]]
                         ELSE run.stories[progress[n][4]]
             IN (key \in DOMAIN start.dbTable /\ OnlyStatusDiffers(item, start.lastOk[key]))
                => SkippedUntouched(key, progress[n][3])

C37_Witness ==
    /\ DbRunEnded /\ ~run.force /\ ~run.dry_run
    /\ \E n \in 1..Len(progress) :
          /\ progress[n][1] = "story"
          /\ progress[n][2] \in DOMAIN start.dbTable
          /\ OnlyStatusDiffers(run.stories[progress[n][4]], start.lastOk[progress[n][2]])
          /\ progress[n][3] = "skipped"
          /\ remote[dbTable[progress[n][2]].notion_page_id].props.status
                # MapStatus(config.database_sync.tasks.status_mapping,
                            run.stories[progress[n][4]].status)

C37_WitnessEpic ==
    /\ DbRunEnded /\ ~run.force /\ ~run.dry_run
    /\ \E n \in 1..Len(progress) :
          /\ progress[n][1] = "epic"
          /\ progress[n][2] \in DOMAIN start.dbTable
          /\ OnlyStatusDiffers(run.epics[progress[n][4]], start.lastOk[progress[n][2]])
          /\ progress[n][3] = "skipped"

\* the store and the remote workspace as they were when the run began
StartWorld == [pageTable |-> start.pageTable, dbTable |-> start.dbTable,
               sync_db |-> start.sync_db, remote |-> start.remote, calls |-> <<>>]

\* the number of documents, epics or stories of the run's scan that a dry
\* run with the run's arguments, begun in the run's start state, reports
\* with the given action
DryDocs(action) ==
    Cardinality({n \in 1..Len(run.items) :
        SyncDocument(StartWorld, run.items[n], run.parent, run.force, TRUE, 0, FALSE).action
            = action})

DryEpics(action) ==
    Cardinality({n \in 1..Len(run.epics) :
        SyncEpic(StartWorld, config, run.epics[n], run.force, TRUE, 0).action = action})

DryStories(action) ==
    Cardinality({n \in 1..Len(run.stories) :
        SyncStory(StartWorld, config, run.stories[n], NoId, run.project, run.force, TRUE, 0).action
            = action})

\* C38: a real run in which no remote call raised reports the created,
\* updated and skipped counts that a dry run begun in the same store state
\* with the same scan result and arguments reports, in page sync and in
\* database sync.
C38_DryRunPredictsRealRun ==
    /\ (PageRunEnded /\ ~run.dry_run /\ RaisedCalls(calls) = 0)
       => /\ result.created = DryDocs("created")
          /\ result.updated = DryDocs("updated")
          /\ result.skipped = DryDocs("skipped")
    /\ (DbRunEnded /\ ~run.dry_run /\ RaisedCalls(calls) = 0)
       => /\ result.epics_created = DryEpics("created")
          /\ result.epics_updated = DryEpics("updated")
          /\ result.epics_skipped = DryEpics("skipped")
          /\ result.stories_created = DryStories("created")
          /\ result.stories_updated = DryStories("updated")
          /\ result.stories_skipped = DryStories("skipped")

\* the epics and the stories the run has processed so far
EpicsProcessed == {n \in 1..Len(progress) : progress[n][1] = "epic"}

StoriesProcessed == {n \in 1..Len(progress) : progress[n][1] = "story"}

\* C39: in a page sync call that reached the loop over the documents,
\* created+updated+skipped+failed is the number of documents processed and
\* there is one error string per failed document; in a database sync call
\* that reached its loops the four epic counters sum to the number of epics
\* processed, the four story counters to the number of stories processed,
\* and there is one error string per failed epic or story.  When the call
\* returns, every document, epic and story of the scan has been processed.
C39_CountersAddUp ==
    /\ (run.engine = "page" /\ (pc = "page" \/ run.items # <<>>))
       => /\ result.created + result.updated + result.skipped + result.failed = Len(progress)
          /\ Len(result.errors) = result.failed
          /\ pc = "returned" => Len(progress) = Len(run.items)
    /\ (run.engine = "db" /\ (pc = "db" \/ run.epics # <<>> \/ run.stories # <<>>))
       => /\ result.epics_created + result.epics_updated + result.epics_skipped
                + result.epics_failed = Cardinality(EpicsProcessed)
          /\ result.stories_created + result.stories_updated + result.stories_skipped
                + result.stories_failed = Cardinality(StoriesProcessed)
          /\ Len(result.errors) = result.epics_failed + result.stories_failed
          /\ pc = "returned" => /\ Cardinality(EpicsProcessed) = Len(run.epics)
                                /\ Cardinality(StoriesProcessed) = Len(run.stories)

\* a page run that ended with one document failed and the other created
C39_Witness ==
    /\ PageRunEnded /\ Len(run.items) = 2
    /\ result.failed = 1 /\ result.created = 1

\* a database run that ended with a failed epic and a failed story
C39_WitnessDb ==
    /\ DbRunEnded
    /\ result.epics_failed >= 1 /\ result.stories_failed >= 1
    /\ result.stories_created + result.stories_updated + result.stories_skipped >= 1

\* the calls of the run that created or updated the row of an epic or story
RowPushes ==
    {k \in 1..Len(calls) : /\ calls[k].ok
                           /\ calls[k].op \in {"create_database_entry", "update_database_entry"}}

\* the ledger status the run's scan holds for an epic or story key
ScannedStatus(key) ==
    LET entries == {n \in 1..Len(ledger) : ledger[n].key = key}
    IN ledger[CHOOSE n \in entries : TRUE].status

\* what the configured table of an epic or story key translates a status to
ExpectedStatus(key, status) ==
    LET mapping == IF key \in EpicKeys THEN config.database_sync.sprints.status_mapping
                   ELSE config.database_sync.tasks.status_mapping
    IN IF status \in DOMAIN mapping THEN mapping[status] ELSE status

C40_WitnessEpic ==
    /\ DbRunEnded
    /\ \E k \in RowPushes :
          /\ calls[k].item \in EpicKeys
          /\ calls[k].props.status = "In Progress"

\* an epic was pushed without a status: no status property is configured
C40_WitnessNoStatus ==
    /\ DbRunEnded
    /\ \E k \in RowPushes : calls[k].item \in EpicKeys /\ calls[k].props.status = None

(***************************************************************************)
(* Two interleaved real page sync runs over one store.  Each store method  *)
(* and each remote call of _sync_document is a step of its own: nothing in *)
(* the engine or the store holds a lock from the lookup to the write.  In  *)
(* this specification pc, run and result hold one entry per run, and no    *)
(* remote call raises.                                                     *)
(***************************************************************************)
Runs == {1, 2}

\* a store synced from the files as they are, or from an older first document
OlderDocFiles == [InitialDocFiles EXCEPT ![DocConfigs[1].path] = [content |-> 0, mtime |-> 0]]

InitConcurrent ==
    /\ config = PageConfig
    /\ docFiles = InitialDocFiles
    /\ ledger = MainLedger
    /\ epicFiles = InitialEpicFiles
    /\ storyFiles = InitialStoryFiles
    /\ clock = 1
    /\ dbTable = <<>>
    /\ \/ /\ pageTable = <<>>
          /\ remote = <<>>
       \/ \E files \in {InitialDocFiles, OlderDocFiles} :
             /\ pageTable = SyncedPageTable(files)
             /\ remote = SyncedPages(config, files)
    /\ sync_db = StoredRows(pageTable, dbTable)
    /\ pc = [p \in Runs |-> "idle"]
    /\ run = [p \in Runs |-> NoRun]
    /\ result = [p \in Runs |-> SyncResult(0, 0, 0, 0, <<>>)]
    /\ calls = <<>>
    /\ progress = <<>>
    /\ start = NoSnapshot
    /\ lastOk = NeverSyncedItems
    /\ afterChange = NoChangeRun
    /\ runs = 0
    /\ failures = 0

\* what a step of one run leaves alone besides the store and the workspace
ConcUnchanged ==
    UNCHANGED <<config, docFiles, ledger, epicFiles, storyFiles, clock, progress, start, lastOk,
                afterChange, failures>>

\* run p has document run[p].i in hand
ConcDoc(p) == run[p].items[run[p].i]

\* run p goes from step `at` to step `to`, its loop variables changed to r
ConcStep(p, at, to, r) ==
    /\ pc[p] = at
    /\ pc' = [pc EXCEPT ![p] = to]
    /\ run' = [run EXCEPT ![p] = r]

\* the document in hand is done with the given action
ConcDone(p, at, action) ==
    /\ ConcStep(p, at, "lookup", [run[p] EXCEPT !.i = AfterItem(@, action, Len(run[p].items))])
    /\ result' = [result EXCEPT ![p] = Tally(@, action, <<>>)]

\* the store and the workspace become those of world w
ConcWorld(w) ==
    /\ pageTable' = w.pageTable
    /\ dbTable' = w.dbTable
    /\ sync_db' = w.sync_db
    /\ remote' = w.remote
    /\ calls' = w.calls

\* PageSyncEngine.sync(force=force, dry_run=False) is called in run p
ConcBegin(p, force) ==
    /\ pc[p] = "idle"
    /\ sync_db.exists
    /\ runs' = runs + 1
    /\ pc' = [pc EXCEPT ![p] = "lookup"]
    /\ run' = [run EXCEPT ![p] =
                 [engine |-> "page", force |-> force, dry_run |-> FALSE,
                  parent |-> ParentPageId(NoId, config),
                  items |-> ScanDocuments(config, docFiles), i |-> 1,
                  state |-> NoPageState, page_id |-> NoId,
                  seen |-> <<>>, seen_at |-> <<>>, made |-> <<>>]]
    /\ UNCHANGED <<pageTable, dbTable, sync_db, remote, calls, result>>
    /\ ConcUnchanged

\* state = self.store.get_page_state(local_path), and the needs_sync test
ConcLookup(p) ==
    /\ pc[p] = "lookup"
    /\ run[p].i <= Len(run[p].items)
    /\ LET doc == ConcDoc(p)
           local_path == PathName(doc.path)
           state == GetPageState(pageTable, local_path)
           r == [run[p] EXCEPT !.state = state,
                               !.seen = Upsert(@, local_path, state),
                               !.seen_at = Upsert(@, local_path, Len(calls))]
       IN IF ~NeedsSyncPage(run[p].force, state, doc)
          THEN /\ pc' = pc
               /\ run' = [run EXCEPT ![p] = [r EXCEPT !.i = AfterItem(@, "skipped", Len(r.items))]]
               /\ result' = [result EXCEPT ![p] = Tally(@, "skipped", <<>>)]
          ELSE /\ pc' = [pc EXCEPT ![p] = IF state = NoPageState THEN "create" ELSE "clear"]
               /\ run' = [run EXCEPT ![p] = r]
               /\ result' = result
    /\ UNCHANGED <<pageTable, dbTable, sync_db, remote, calls, runs>>
    /\ ConcUnchanged

\* self.client.create_child_page
ConcCreate(p) ==
    /\ pc[p] = "create"
    /\ LET doc == ConcDoc(p)
           local_path == PathName(doc.path)
           page_id == NewId(World)
       IN /\ ConcStep(p, "create", "save_created",
                      [run[p] EXCEPT !.page_id = page_id,
                                     !.made = Upsert(@, local_path, page_id)])
          /\ ConcWorld(CreateChildPage(World, local_path, run[p].parent, doc.title, doc.content,
                                       Min(MarkdownToBlocks(doc.content), PageBatch)))
    /\ UNCHANGED <<result, runs>>
    /\ ConcUnchanged

\* self.store.save_page_state right after the creation
ConcSaveCreated(p) ==
    /\ pc[p] = "save_created"
    /\ LET doc == ConcDoc(p)
           w == SavePageState(World, NewPageState(PathName(doc.path), run[p].page_id, doc))
       IN /\ ConcWorld(w)
          /\ IF MarkdownToBlocks(doc.content) > PageBatch
             THEN ConcStep(p, "save_created", "append_rest", run[p]) /\ result' = result
             ELSE ConcDone(p, "save_created", "created")
    /\ UNCHANGED runs
    /\ ConcUnchanged

\* self.client.append_blocks_in_batches(page_id, blocks[100:])
ConcAppendRest(p) ==
    /\ pc[p] = "append_rest"
    /\ LET doc == ConcDoc(p)
       IN /\ ConcWorld(AppendBlocks(World, "append_blocks_in_batches", PathName(doc.path),
                                    run[p].page_id, doc.content,
                                    MarkdownToBlocks(doc.content) - PageBatch))
          /\ ConcDone(p, "append_rest", "created")
    /\ UNCHANGED runs
    /\ ConcUnchanged

\* self.client.clear_page_content(state.notion_page_id)
ConcClear(p) ==
    /\ pc[p] = "clear"
    /\ LET doc == ConcDoc(p)
       IN /\ ConcWorld(ClearPageContent(World, PathName(doc.path), run[p].state.notion_page_id))
          /\ ConcStep(p, "clear",
                      IF MarkdownToBlocks(doc.content) > 0 THEN "append" ELSE "save_updated",
                      [run[p] EXCEPT !.page_id = run[p].state.notion_page_id])
    /\ UNCHANGED <<result, runs>>
    /\ ConcUnchanged

\* self.client.append_blocks_in_batches(page_id, blocks)
ConcAppend(p) ==
    /\ pc[p] = "append"
    /\ LET doc == ConcDoc(p)
       IN /\ ConcWorld(AppendBlocks(World, "append_blocks_in_batches", PathName(doc.path),
                                    run[p].page_id, doc.content, MarkdownToBlocks(doc.content)))
          /\ ConcStep(p, "append", "save_updated", run[p])
    /\ UNCHANGED <<result, runs>>
    /\ ConcUnchanged

\* self.store.save_page_state at the end of the update
ConcSaveUpdated(p) ==
    /\ pc[p] = "save_updated"
    /\ LET doc == ConcDoc(p)
       IN /\ ConcWorld(SavePageState(World,
                                     NewPageState(PathName(doc.path), run[p].page_id, doc)))
          /\ ConcDone(p, "save_updated", "updated")
    /\ UNCHANGED runs
    /\ ConcUnchanged

\* the loop is over: sync returns its SyncResult
ConcReturn(p) ==
    /\ pc[p] = "lookup"
    /\ run[p].i > Len(run[p].items)
    /\ pc' = [pc EXCEPT ![p] = "returned"]
    /\ UNCHANGED <<pageTable, dbTable, sync_db, remote, calls, run, result, runs>>
    /\ ConcUnchanged

NextConcurrent ==
    \E p \in Runs :
        \/ \E force \in BOOLEAN : ConcBegin(p, force)
        \/ ConcLookup(p)
        \/ ConcCreate(p)
        \/ ConcSaveCreated(p)
        \/ ConcAppendRest(p)
        \/ ConcClear(p)
        \/ ConcAppend(p)
        \/ ConcSaveUpdated(p)
        \/ ConcReturn(p)

SpecConcurrent == InitConcurrent /\ [][NextConcurrent]_vars


\* the runs that created a page for a document
Makers(name) == {p \in Runs : run[p].engine = "page" /\ name \in DOMAIN run[p].made}

\* the record of the document had been written by the k-th logged call
SavedBy(name, k) ==
    \E n \in 1..k : calls[n].op = "save_page_state" /\ calls[n].item = name

DocNames == {PathName(path) : path \in DocPaths}

\* C31: a run creates a page for a document only when its lookup found no
\* record, which is so exactly when the lookup came before every write of
\* that record; the lookup and the write being separate steps, both runs can
\* be in that position, and then each creates a page: a document has as
\* many remote pages as there are runs that looked it up before the first
\* write, while the store keeps one record, naming one of the pages.
C31_DuplicatesFromUnlockedLookup ==
    \A name \in DocNames :
        /\ \A p \in Makers(name) :
              /\ run[p].seen[name] = NoPageState
              /\ ~SavedBy(name, run[p].seen_at[name])
              /\ run[p].made[name] \in PagesOf(name)
        /\ name \in DOMAIN pageTable
           => /\ pageTable[name].notion_page_id \in PagesOf(name)
              /\ Cardinality({r \in sync_db.page_sync_state : r.local_path = name}) = 1
        /\ Cardinality(PagesOf(name)) >= 2
           => /\ Makers(name) = Runs
              /\ PagesOf(name) = {run[p].made[name] : p \in Runs}

\* both runs have returned; each found no record for the same document and
\* created a page for it: two remote pages, one of them without a record
C31_Witness ==
    /\ \A p \in Runs : pc[p] = "returned" /\ ~run[p].dry_run
    /\ \E name \in DocNames :
          /\ Cardinality(PagesOf(name)) = 2
          /\ \A p \in Runs : run[p].seen[name] = NoPageState /\ name \in DOMAIN run[p].made
          /\ run[1].made[name] # run[2].made[name]
          /\ result[1].created >= 1 /\ result[2].created >= 1
          /\ \E id \in PagesOf(name) : pageTable[name].notion_page_id # id

====
